---- MODULE Spec2Model ----
(***************************************************************************)
(* Model of the agent runtime of pc099/opula:                              *)
(*   - BaseAgent (src/agents/src/core/base_agent.py): initialize, start,   *)
(*     stop, execute_action, reload_config and the background tasks;       *)
(*   - IncidentResponseAgent, RunbookExecutor and EscalationManager        *)
(*     (src/agents/src/agents/incident_response_agent.py): incident        *)
(*     detection, automated resolution, escalation.                        *)
(* A coroutine is split into steps at the awaits where it really suspends  *)
(* (the runbook execution); everything between two suspensions is one      *)
(* atomic step, as in asyncio.                                             *)
(***************************************************************************)
EXTENDS Integers, FiniteSets, Sequences, TLC

(***************************************************************************)
(* Bounds of the model                                                     *)
(***************************************************************************)
NumIncidents == 1
NumActions == 2
MaxConfiguredAttempts == 2
MaxAttemptsSeen == 3
MaxErrorCount == 1
MaxLeaked == 1
MaxEscalationsSeen == 2
MaxCalls == 3
MaxEvents == 2
NumAgentIds == 2
NumInstances == 3
NumCallers == 2
MaxEntries == 4
MaxSteps == 2
MaxRollbackSteps == 2
MaxCriteria == 3
MaxAlerts == 3
MaxScalingActions == 3
MaxHistoryEntries == 101
MaxOtherEntries == 2
MaxChecks == 3
MaxErrorsReported == 12
MaxBufferedAlerts == 3
ShortCorrelationInterval == 30

(***************************************************************************)
(* Program constants                                                       *)
(***************************************************************************)
DefaultMaxResolutionAttempts == 3
DefaultCorrelationInterval == 60
HighSeverityDelay == 300
FailedAutomationDelay == 900
LongRunningSeconds == 1800
CorrelationWindow == 15
ScalingThreshold == 70
ScalingCooldown == 300
ScalingHistoryLimit == 100
HealthHistoryLimit == 100
DriftHistoryLimit == 100
CostHistoryLimit == 30
UnhealthyErrors == 10
DegradedErrors == 5

IncidentSlots == 1..NumIncidents
ActionSlots == 1..NumActions
Severities == {"low", "medium", "high", "critical"}
TitleHashes == {0, 1}
NoTime == 0 - 1
NoConfig == [present |-> FALSE]
\* a threshold that int() rejects (nan, inf)
NotANumber == 0 - 2
NoId == [t |-> NoTime, h |-> 0]
TaskKinds == {"health", "watch", "correlation", "escalation"}
LoopKinds == {"health", "correlation", "escalation"}

\* AgentConfig values (the fields and thresholds the agent consumes)
Configs ==
  [present : {TRUE}, enabled : BOOLEAN,
   correlation_interval : {ShortCorrelationInterval, DefaultCorrelationInterval},
   auto_resolution_enabled : BOOLEAN, escalation_enabled : BOOLEAN,
   max_resolution_attempts : (1..MaxConfiguredAttempts) \cup {NotANumber}]

VARIABLES
  config,                  \* self.config
  is_running,              \* self.is_running
  error_count,             \* self.error_count
  metrics,                 \* self.metrics, the counters
  calls,                   \* the number of execute_action calls made so far
  correlation_interval,    \* IncidentResponseAgent.correlation_interval
  auto_resolution_enabled, \* IncidentResponseAgent.auto_resolution_enabled
  escalation_enabled,      \* IncidentResponseAgent.escalation_enabled
  max_resolution_attempts, \* IncidentResponseAgent.max_resolution_attempts
  tasks,                   \* the task each handle refers to: kind -> state
  leaked,                  \* live tasks no handle refers to: kind -> count
  incidents,               \* the Incident objects created so far
  active_incidents,        \* self.active_incidents, as the set of objects in it
  actions,                 \* the AgentAction objects and the calls on them
  now,                     \* datetime.utcnow(), in seconds
  op,                      \* the call that made the last step, and how it returned
  agents,                  \* AgentRegistry.agents: the entries of the dict
  instances,               \* the agent objects the registry and manager handle
  callers,                 \* the calls in progress on the registry and manager
  execution,               \* the execute_runbook call in progress, and its result
  call,                    \* the last call of a function of the agent's components
  last_scaling_decisions,  \* KubernetesAgent.last_scaling_decisions
  scaling_history,         \* KubernetesAgent.scaling_history
  execution_history,       \* RunbookExecutor.execution_history
  health_checks,           \* HealthMonitor.health_checks, in insertion order
  health_history,          \* HealthMonitor.health_history
  drift_history,           \* TerraformAgent.drift_history
  cost_history,            \* CostOptimizationAgent.cost_history
  alert_buffer,            \* IncidentResponseAgent.alert_buffer
  flush                    \* the _process_alert_buffer call in progress

\* the state of the other agents and of the health monitor
scalingVars == <<last_scaling_decisions, scaling_history>>
monitorVars == <<health_checks, health_history>>
flushVars == <<alert_buffer, flush>>
peerVars == <<scalingVars, monitorVars, drift_history, cost_history, flushVars>>
executorVars == <<execution, execution_history>>

derivedVars == <<correlation_interval, auto_resolution_enabled,
                 escalation_enabled, max_resolution_attempts>>
countVars == <<metrics, calls>>
agentVars == <<config, is_running, error_count, metrics, calls,
               correlation_interval, auto_resolution_enabled,
               escalation_enabled, max_resolution_attempts>>
taskVars == <<tasks, leaked>>
incidentVars == <<incidents, active_incidents>>
progVars == <<config, is_running, error_count, metrics, calls,
              correlation_interval, auto_resolution_enabled,
              escalation_enabled, max_resolution_attempts, tasks, leaked,
              incidents, active_incidents, actions, now>>
vars == <<config, is_running, error_count, metrics, calls,
          correlation_interval, auto_resolution_enabled,
          escalation_enabled, max_resolution_attempts, tasks, leaked,
          incidents, active_incidents, actions, now, op,
          agents, instances, callers, executorVars, call, peerVars>>

\* the single agent modelled in detail, and the registry with its agents
agentSideVars == <<config, is_running, error_count, metrics, calls,
                   correlation_interval, auto_resolution_enabled,
                   escalation_enabled, max_resolution_attempts, tasks, leaked,
                   incidents, active_incidents, actions, now, op,
                   executorVars, call, peerVars>>
registryVars == <<agents, instances, callers>>

\* runbook_executor, escalation_manager and alert_correlator used on their own
componentVars == <<executorVars, call, peerVars>>

Op(name) == [name |-> name, noop |-> FALSE, raised |-> FALSE, outcome |-> "none"]

(***************************************************************************)
(* Data model                                                              *)
(***************************************************************************)
NoIncident ==
  [exists |-> FALSE, id |-> NoId, severity |-> "low", status |-> "open",
   detected_at |-> NoTime, resolved_at |-> NoTime,
   automated_resolution |-> FALSE, escalated |-> FALSE,
   resolution_attempts |-> 0, escalations |-> 0]

\* pc is the position of the execute_action call in progress on the action;
\* result is what _execute_action_specific returned, while the call returns
NoAction ==
  [exists |-> FALSE, type |-> "none", status |-> "pending", incident_id |-> NoId,
   runbook_id |-> "none", from_handler |-> FALSE, pc |-> "idle", inc |-> 0,
   result |-> "none"]

\* a runbook step, by what _execute_step does with it: "ok" (the simulated
\* command succeeds), "fail" (the step has no usable "command": the error is
\* caught and the result has success = False) or "raise" (the step has no
\* "type" or "description": the KeyError leaves _execute_step)
Step(outcome, critical) == [outcome |-> outcome, critical |-> critical]

\* a success criterion, as the set of the keywords its lower-cased text
\* contains; NotAString is an entry on which .lower() raises
Keywords == {"running", "ready", "latency", "usage", "error", "logs"}
NotAString == {"None"}

\* RunbookExecutor.runbooks: catalog key -> runbook
Runbooks ==
  [service_down |->
     [id |-> "service_down_basic",
      incident_patterns |-> {"service_down", "application_crashed"},
      steps |-> <<Step("ok", FALSE), Step("ok", FALSE), Step("ok", FALSE)>>,
      success_criteria |-> <<{"running"}, {}, {"error", "logs"}>>,
      rollback_steps |-> <<Step("ok", FALSE)>>,
      risk_level |-> "medium", success_rate |-> 80],
   high_latency |->
     [id |-> "high_latency_basic",
      incident_patterns |-> {"high_latency", "slow_performance"},
      steps |-> <<Step("ok", FALSE), Step("ok", FALSE), Step("ok", FALSE)>>,
      success_criteria |-> <<{"latency"}, {"ready"}, {"usage"}>>,
      rollback_steps |-> <<Step("ok", FALSE)>>,
      risk_level |-> "low", success_rate |-> 90],
   resource_exhaustion |->
     [id |-> "resource_exhaustion_basic",
      incident_patterns |-> {"resource_exhaustion", "memory_full", "disk_full"},
      steps |-> <<Step("ok", FALSE), Step("ok", FALSE), Step("ok", FALSE)>>,
      success_criteria |-> <<{"usage"}, {"usage"}, {}>>,
      rollback_steps |-> <<>>,
      risk_level |-> "low", success_rate |-> 85]]

RunbookKeys == DOMAIN Runbooks
RunbookIds == {Runbooks[k].id : k \in RunbookKeys}

\* IncidentClassifier.incident_types that the model feeds to the handler
IncidentTypes == {"service_down", "high_latency", "resource_exhaustion", "unknown"}

\* runbooks.get(runbook_id): the catalog keys for which the lookup succeeds
RunbookLookup(runbook_id) == {k \in RunbookKeys : k = runbook_id}

\* find_applicable_runbooks: the runbooks of the type, best success rate first
FindApplicableRunbooks(incident_type) ==
  LET app == {k \in RunbookKeys : incident_type \in Runbooks[k].incident_patterns}
  IN IF app = {} THEN {}
     ELSE {CHOOSE k \in app :
             \A k2 \in app : Runbooks[k].success_rate >= Runbooks[k2].success_rate}

\* one pass of the loop body of _check_success_criteria: the if / elif chain
CriterionCount(criteria) ==
  IF "running" \in criteria \/ "ready" \in criteria THEN 1
  ELSE IF "latency" \in criteria \/ "usage" \in criteria THEN 1
  ELSE IF "error" \in criteria \/ "logs" \in criteria THEN 1
  ELSE 0

RECURSIVE SuccessCount(_)
SuccessCount(cs) ==
  IF cs = <<>> THEN 0 ELSE CriterionCount(Head(cs)) + SuccessCount(Tail(cs))

\* criteria.lower() raises on an entry that is not a string
CheckRaises(rb) ==
  \E k \in 1..Len(rb.success_criteria) : rb.success_criteria[k] = NotAString

\* variant: more than half of the criteria is enough
CheckSuccessCriteriaMajority(rb) ==
  2 * SuccessCount(rb.success_criteria) >= Len(rb.success_criteria)

\* _check_success_criteria: success_count / len >= 0.7, and 1.0 for no
\* criteria; in doubles the quotient of two list lengths is at least the
\* double 0.7 exactly when 10 * success_count >= 7 * len
CheckSuccessCriteria(rb) ==
  IF Len(rb.success_criteria) = 0 THEN TRUE
  ELSE 10 * SuccessCount(rb.success_criteria) >= 7 * Len(rb.success_criteria)

\* execute_runbook on a catalog runbook: every simulated step succeeds, so the
\* overall success is the success-criteria check
ExecuteRunbookSuccess(key) == CheckSuccessCriteria(Runbooks[key])

(***************************************************************************)
(* EscalationManager                                                       *)
(***************************************************************************)
IncidentDuration(inc) ==
  IF inc.resolved_at # NoTime THEN inc.resolved_at - inc.detected_at
  ELSE now - inc.detected_at

\* variant: the long-running rule is evaluated first
EscalationRulesLongRunningFirst ==
  << [name |-> "Long Running Incident", kind |-> "long_running",
      escalation_delay |-> 0],
     [name |-> "Critical Incident Immediate Escalation", kind |-> "critical",
      escalation_delay |-> 0],
     [name |-> "High Severity Escalation", kind |-> "high",
      escalation_delay |-> HighSeverityDelay],
     [name |-> "Failed Automation Escalation", kind |-> "failed_automation",
      escalation_delay |-> FailedAutomationDelay] >>

EscalationRules ==
  << [name |-> "Critical Incident Immediate Escalation", kind |-> "critical",
      escalation_delay |-> 0],
     [name |-> "High Severity Escalation", kind |-> "high",
      escalation_delay |-> HighSeverityDelay],
     [name |-> "Failed Automation Escalation", kind |-> "failed_automation",
      escalation_delay |-> FailedAutomationDelay],
     [name |-> "Long Running Incident", kind |-> "long_running",
      escalation_delay |-> 0] >>

RuleCondition(rule, inc) ==
  CASE rule.kind = "critical" -> inc.severity = "critical"
    [] rule.kind = "high" -> inc.severity = "high"
    [] rule.kind = "failed_automation" ->
         ~inc.automated_resolution /\ inc.status = "open"
    [] rule.kind = "long_running" -> IncidentDuration(inc) > LongRunningSeconds

RuleFires(rule, inc) ==
  RuleCondition(rule, inc) /\ IncidentDuration(inc) >= rule.escalation_delay

ShouldEscalate(inc) ==
  LET firing == {n \in 1..Len(EscalationRules) : RuleFires(EscalationRules[n], inc)}
  IN IF firing = {} THEN [escalate |-> FALSE, reason |-> ""]
     ELSE LET first == CHOOSE n \in firing : \A m \in firing : n <= m
          IN [escalate |-> TRUE, reason |-> EscalationRules[first].name]

Saturate(n, max) == IF n < max THEN n + 1 ELSE max

\* escalate_incident: the flag is set, the notifications are sent
EscalateIncident(inc) ==
  [inc EXCEPT !.escalated = TRUE,
              !.escalations = Saturate(inc.escalations, MaxEscalationsSeen)]

(***************************************************************************)
(* Background tasks                                                        *)
(***************************************************************************)
\* asyncio.create_task stores the new task in the handle; a task the handle
\* referred to and that is still alive lives on without a handle
CanSpawn(kind) == tasks[kind] # "alive" \/ leaked[kind] < MaxLeaked

SpawnTask(ts, kind) ==
  [tasks |-> [ts.tasks EXCEPT ![kind] = "alive"],
   leaked |-> IF ts.tasks[kind] = "alive"
              THEN [ts.leaked EXCEPT ![kind] = @ + 1] ELSE ts.leaked]

\* task.cancel() followed by await task, for a handle that is set
CancelAndAwait(ts, kind) ==
  [ts EXCEPT !.tasks[kind] = IF @ = "alive" THEN "done" ELSE @]

\* does awaiting the handle's task raise something else than CancelledError
AwaitRaises(ts, kind) == ts.tasks[kind] = "failed"

LiveTasks(kind) == (IF tasks[kind] = "alive" THEN 1 ELSE 0) + leaked[kind]

(***************************************************************************)
(* BaseAgent.initialize / reload_config                                    *)
(***************************************************************************)
\* int(self.config.thresholds.get("max_resolution_attempts", 3)) raises
IntRaises(threshold) == threshold = NotANumber

\* variant: an error handler that takes an error off the count
CountErrorDown(n) == n - 1

\* "self.error_count += 1"
CountError(n) == n + 1

\* variant: a field derived from its previous value
InitializeAgentSpecificToggling(cfg) ==
  /\ correlation_interval' = cfg.correlation_interval
  /\ auto_resolution_enabled' = ~auto_resolution_enabled
  /\ escalation_enabled' = cfg.escalation_enabled
  /\ max_resolution_attempts' =
       IF IntRaises(cfg.max_resolution_attempts)
       THEN max_resolution_attempts ELSE cfg.max_resolution_attempts

\* _initialize_agent_specific: the derived fields are loaded from the
\* thresholds in source order; int() of the last one raises on a threshold
\* that is not a number, after the first three are assigned
InitializeAgentSpecific(cfg) ==
  /\ correlation_interval' = cfg.correlation_interval
  /\ auto_resolution_enabled' = cfg.auto_resolution_enabled
  /\ escalation_enabled' = cfg.escalation_enabled
  /\ max_resolution_attempts' =
       IF IntRaises(cfg.max_resolution_attempts)
       THEN max_resolution_attempts ELSE cfg.max_resolution_attempts

Initialize(cfg) ==
  /\ config' = cfg
  /\ InitializeAgentSpecific(cfg)
  /\ IF IntRaises(cfg.max_resolution_attempts)
     THEN /\ error_count < MaxErrorCount
          /\ error_count' = CountError(error_count)
          /\ UNCHANGED taskVars
          /\ op' = [Op("initialize") EXCEPT !.raised = TRUE]
     ELSE /\ CanSpawn("watch")
          /\ LET ts == SpawnTask([tasks |-> tasks, leaked |-> leaked], "watch")
             IN tasks' = ts.tasks /\ leaked' = ts.leaked
          /\ UNCHANGED error_count
          /\ op' = Op("initialize")
  /\ UNCHANGED <<is_running, countVars, incidents, active_incidents, actions,
                 now>>

ReloadConfig(cfg) ==
  /\ config' = cfg
  /\ InitializeAgentSpecific(cfg)
  /\ IF IntRaises(cfg.max_resolution_attempts)
     THEN /\ error_count < MaxErrorCount
          /\ error_count' = CountError(error_count)
          /\ op' = [Op("reload_config") EXCEPT !.raised = TRUE]
     ELSE /\ UNCHANGED error_count
          /\ op' = Op("reload_config")
  /\ UNCHANGED <<is_running, countVars, tasks, leaked, incidents,
                 active_incidents, actions, now>>

(***************************************************************************)
(* BaseAgent.start                                                         *)
(***************************************************************************)
StartFailures == {"none", "subscribe", "specific"}

\* "if self.is_running: ... return"
StartAlreadyRunning == is_running

\* variant: an except branch that leaves the flag set
StartFailureKeepsRunning == TRUE

\* the running flag the except branch of start leaves behind
StartFailureRunning == FALSE

\* _start_agent_specific of the incident-response agent
StartAgentSpecific(ts) ==
  LET t1 == SpawnTask(ts, "correlation")
  IN IF escalation_enabled THEN SpawnTask(t1, "escalation") ELSE t1

CanStartAgentSpecific ==
  /\ CanSpawn("correlation")
  /\ escalation_enabled => CanSpawn("escalation")

Start(failure) ==
  /\ UNCHANGED <<config, countVars, derivedVars, incidents,
                 active_incidents, actions, now>>
  /\ IF StartAlreadyRunning
     THEN /\ UNCHANGED <<is_running, error_count, tasks, leaked>>
          /\ op' = [Op("start") EXCEPT !.noop = TRUE]
     ELSE IF ~config.present
     THEN /\ error_count < MaxErrorCount
          /\ error_count' = CountError(error_count)
          /\ is_running' = StartFailureRunning
          /\ UNCHANGED <<tasks, leaked>>
          /\ op' = [Op("start") EXCEPT !.raised = TRUE, !.outcome = "no_config"]
     ELSE /\ CanSpawn("health")
          /\ LET h == SpawnTask([tasks |-> tasks, leaked |-> leaked], "health")
             IN IF failure = "none"
                THEN /\ CanStartAgentSpecific
                     /\ is_running' = TRUE
                     /\ tasks' = StartAgentSpecific(h).tasks
                     /\ leaked' = StartAgentSpecific(h).leaked
                     /\ UNCHANGED error_count
                     /\ op' = Op("start")
                ELSE /\ error_count < MaxErrorCount
                     /\ error_count' = CountError(error_count)
                     /\ is_running' = StartFailureRunning
                     /\ tasks' = h.tasks
                     /\ leaked' = h.leaked
                     /\ op' = [Op("start") EXCEPT !.raised = TRUE,
                                                  !.outcome = failure]

(***************************************************************************)
(* BaseAgent.stop                                                          *)
(***************************************************************************)
\* variant: a stop() that skips the early return
StopWithoutRunningCheck == FALSE

\* "if not self.is_running: ... return"
StopNotRunning == ~is_running

\* _stop_agent_specific of the incident-response agent
StopAgentSpecific(ts) ==
  LET t1 == IF ts.tasks["correlation"] # "none"
            THEN CancelAndAwait(ts, "correlation") ELSE ts
  IN IF t1.tasks["escalation"] # "none"
     THEN CancelAndAwait(t1, "escalation") ELSE t1

Stop ==
  /\ UNCHANGED <<config, countVars, derivedVars, incidents,
                 active_incidents, actions, now>>
  /\ IF StopNotRunning
     THEN /\ UNCHANGED <<is_running, error_count, tasks, leaked>>
          /\ op' = [Op("stop") EXCEPT !.noop = TRUE]
     ELSE /\ is_running' = FALSE
          /\ LET t0 == [tasks |-> tasks, leaked |-> leaked]
                 t1 == IF t0.tasks["health"] # "none"
                       THEN CancelAndAwait(t0, "health") ELSE t0
             IN IF t1.tasks["watch"] # "none" /\ AwaitRaises(t1, "watch")
                THEN \* the except branch: the agent-specific teardown is skipped
                     /\ error_count < MaxErrorCount
                     /\ error_count' = CountError(error_count)
                     /\ tasks' = t1.tasks
                     /\ leaked' = t1.leaked
                     /\ op' = [Op("stop") EXCEPT !.outcome = "error"]
                ELSE LET t2 == IF t1.tasks["watch"] # "none"
                               THEN CancelAndAwait(t1, "watch") ELSE t1
                         t3 == StopAgentSpecific(t2)
                     IN /\ tasks' = t3.tasks
                        /\ leaked' = t3.leaked
                        /\ UNCHANGED error_count
                        /\ op' = Op("stop")

(***************************************************************************)
(* Steps of the background tasks themselves                                *)
(***************************************************************************)
\* a loop task wakes up, finds "while self.is_running" false and returns
LoopTaskExits(kind) ==
  /\ ~is_running
  /\ \/ /\ tasks[kind] = "alive"
        /\ tasks' = [tasks EXCEPT ![kind] = "done"]
        /\ UNCHANGED leaked
     \/ /\ leaked[kind] > 0
        /\ leaked' = [leaked EXCEPT ![kind] = @ - 1]
        /\ UNCHANGED tasks
  /\ op' = Op("other")
  /\ UNCHANGED <<agentVars, incidents, active_incidents, actions, now>>

\* config_service.watch_config_changes returns or raises
WatchTaskEnds(outcome) ==
  /\ \/ /\ tasks["watch"] = "alive"
        /\ tasks' = [tasks EXCEPT !["watch"] = outcome]
        /\ UNCHANGED leaked
     \/ /\ leaked["watch"] > 0
        /\ leaked' = [leaked EXCEPT !["watch"] = @ - 1]
        /\ UNCHANGED tasks
  /\ op' = Op("other")
  /\ UNCHANGED <<agentVars, incidents, active_incidents, actions, now>>

\* does the loop's handler for a caught error add it to error_count: the
\* health-check loop does (lines 356-359); _process_alert_buffer and
\* _check_incidents_for_escalation catch and log their errors themselves
LoopCountsErrors(kind) == kind = "health"

\* one iteration of a background loop hits an error before it has changed
\* anything: the error is caught and the task sleeps until the next iteration
LoopIterationError(kind) ==
  /\ is_running
  /\ LiveTasks(kind) > 0
  /\ IF LoopCountsErrors(kind)
     THEN /\ error_count < MaxErrorCount
          /\ error_count' = CountError(error_count)
     ELSE UNCHANGED error_count
  /\ op' = [Op("loop_error") EXCEPT !.outcome = kind]
  /\ UNCHANGED <<config, is_running, countVars, derivedVars, taskVars,
                 incidentVars, actions, now>>

(***************************************************************************)
(* IncidentResponseAgent: incidents                                        *)
(***************************************************************************)
ActiveWithId(id) == {i \in active_incidents : incidents[i].id = id}

\* the identifiers a caller or an event can name: those handed out so far,
\* and one that no incident has
KnownIds == {incidents[i].id : i \in {j \in IncidentSlots : incidents[j].exists}}
              \cup {NoId}

\* _create_incident_from_alerts: the Incident as the correlator returns it;
\* the identifier is made of the creation second and the title hash
NewIncident(sev, h) ==
  [exists |-> TRUE, id |-> [t |-> now, h |-> h], severity |-> sev,
   status |-> "open", detected_at |-> now, resolved_at |-> NoTime,
   automated_resolution |-> FALSE, escalated |-> FALSE,
   resolution_attempts |-> 0, escalations |-> 0]

\* _process_new_incident, run by the correlation loop for an incident of the
\* flush: self.active_incidents[incident.id] = incident
ProcessNewIncident(i, sev, h) ==
  /\ is_running
  /\ LiveTasks("correlation") > 0
  /\ ~incidents[i].exists
  /\ \A j \in IncidentSlots : j < i => incidents[j].exists
  /\ incidents' = [incidents EXCEPT ![i] = NewIncident(sev, h)]
  /\ active_incidents' =
       (active_incidents \ ActiveWithId([t |-> now, h |-> h])) \cup {i}
  /\ op' = Op("other")
  /\ UNCHANGED <<agentVars, taskVars, actions, now>>

\* variant: a resolution that also clears the escalated flag
ResolveIncidentClearsEscalated(inc) ==
  [inc EXCEPT !.status = "resolved", !.resolved_at = now,
              !.automated_resolution = TRUE, !.escalated = FALSE]

\* the three assignments that mark an incident resolved
ResolveIncident(inc) ==
  [inc EXCEPT !.status = "resolved", !.resolved_at = now,
              !.automated_resolution = TRUE]

\* variant: escalation forced only once the ceiling is exceeded
ForcedEscalationDueStrict(attempts) == attempts > max_resolution_attempts

\* "if incident.metadata['resolution_attempts'] >= self.max_resolution_attempts"
ForcedEscalationDue(attempts) == attempts >= max_resolution_attempts

\* the failure branch of _execute_incident_resolution
RecordFailedAttempt(inc) ==
  LET counted == [inc EXCEPT !.resolution_attempts = @ + 1]
  IN IF ForcedEscalationDue(counted.resolution_attempts) /\ escalation_enabled
     THEN EscalateIncident(counted) ELSE counted

\* variant: the sweep looks at every incident ever created
SweepIncidentWhereverItIs(i) ==
  IF incidents[i].exists /\ ~incidents[i].escalated
     /\ ShouldEscalate(incidents[i]).escalate
  THEN EscalateIncident(incidents[i]) ELSE incidents[i]

\* _check_incidents_for_escalation, one sweep of the escalation loop; neither
\* should_escalate nor escalate_incident suspends, so the sweep is one step
SweepIncident(i) ==
  IF i \in active_incidents /\ ~incidents[i].escalated
     /\ ShouldEscalate(incidents[i]).escalate
  THEN EscalateIncident(incidents[i]) ELSE incidents[i]

CheckIncidentsForEscalation ==
  /\ is_running
  /\ LiveTasks("escalation") > 0
  /\ incidents' = [i \in IncidentSlots |-> SweepIncident(i)]
  /\ op' = Op("other")
  /\ UNCHANGED <<agentVars, taskVars, active_incidents, actions, now>>

(***************************************************************************)
(* Actions: creation                                                       *)
(***************************************************************************)
FreeActionSlot(a) ==
  /\ ~actions[a].exists
  /\ \A b \in ActionSlots : b < a => actions[b].exists

\* "if not self.is_running or not self.config or not self.config.enabled"
\* variant: only the running flag is looked at
EventIgnoredWhateverConfig == ~is_running

EventIgnored == ~is_running \/ ~config.present \/ ~config.enabled

\* _handle_incident_detected_event: the action it returns for an event naming
\* the incident and its type, NoAction when it returns none
HandleIncidentDetectedEvent(id, incident_type) ==
  IF /\ ActiveWithId(id) # {}
     /\ auto_resolution_enabled
     /\ FindApplicableRunbooks(incident_type) # {}
  THEN LET rb == CHOOSE k \in FindApplicableRunbooks(incident_type) : TRUE
       IN [NoAction EXCEPT !.exists = TRUE, !.type = "incident_resolve",
                           !.incident_id = id,
                           !.runbook_id = Runbooks[rb].id,
                           !.from_handler = TRUE]
  ELSE NoAction

\* what can raise inside process_event: AuditService.log_event, and
\* EventBus.publish_action when an action was generated
EventFailures == {"none", "log_event", "publish_action"}

\* process_event for an INCIDENT_DETECTED event; the action it returns is
\* object a
ProcessEvent(a, id, incident_type, failure) ==
  /\ FreeActionSlot(a)
  /\ UNCHANGED <<config, is_running, calls, derivedVars, taskVars,
                 incidentVars, now>>
  /\ IF EventIgnored
     THEN /\ UNCHANGED <<error_count, metrics, actions>>
          /\ op' = [Op("process_event") EXCEPT !.noop = TRUE]
     ELSE /\ metrics.events_processed < MaxEvents
          /\ metrics' = [metrics EXCEPT !.events_processed = @ + 1]
          /\ LET action == HandleIncidentDetectedEvent(id, incident_type)
             IN IF \/ failure = "log_event"
                   \/ failure = "publish_action" /\ action.exists
                THEN \* the except branch: none is returned
                     /\ error_count < MaxErrorCount
                     /\ error_count' = CountError(error_count)
                     /\ UNCHANGED actions
                     /\ op' = [Op("process_event") EXCEPT !.outcome = "error"]
                ELSE /\ UNCHANGED error_count
                     /\ actions' = IF action.exists
                                   THEN [actions EXCEPT ![a] = action]
                                   ELSE actions
                     /\ op' = [Op("process_event") EXCEPT !.outcome =
                                 IF action.exists THEN "action" ELSE "none"]

ActionTypes == {"incident_resolve", "k8s_scale"}

\* an AgentAction a caller of execute_action builds itself, naming a runbook
\* by its catalog key
CreateAction(a, type, id, runbook_id) ==
  /\ FreeActionSlot(a)
  /\ actions' = [actions EXCEPT ![a] =
       [NoAction EXCEPT !.exists = TRUE, !.type = type, !.incident_id = id,
                        !.runbook_id = runbook_id]]
  /\ op' = Op("other")
  /\ UNCHANGED <<agentVars, taskVars, incidentVars, now>>

(***************************************************************************)
(* BaseAgent.execute_action                                                *)
(***************************************************************************)
\* "if not self.is_running or not self.config: raise RuntimeError"
AgentNotActive == ~is_running \/ ~config.present

\* AuditService.log_action during one execute_action call: it returns, it
\* raises on its first invocation only, or it raises on every invocation
AuditBehaviours == {"ok", "first_fails", "fails"}

\* the metrics after a call whose result was success or not: lines 203-210,
\* and lines 235-236 when log_action raised at line 223
CountCall(m, success, audit) ==
  [m EXCEPT !.actions_executed = @ + (IF audit = "ok" THEN 1 ELSE 2),
            !.actions_successful = @ + (IF success THEN 1 ELSE 0),
            !.actions_failed = @ + (IF success THEN 0 ELSE 1)
                                 + (IF audit = "ok" THEN 0 ELSE 1)]

\* the call of execute_action on a returns its result, or raises when
\* log_action raises in the except branch too (line 249)
ReturnResult(a, success, audit) ==
  /\ audit # "ok" => error_count < MaxErrorCount
  /\ actions' = [actions EXCEPT
       ![a].status = IF success /\ audit = "ok" THEN "completed" ELSE "failed",
       ![a].pc = "idle", ![a].inc = 0, ![a].result = "none"]
  /\ metrics' = CountCall(metrics, success, audit)
  /\ error_count' = IF audit = "ok" THEN error_count ELSE CountError(error_count)
  /\ op' = [Op("execute_action") EXCEPT
              !.raised = (audit = "fails"),
              !.outcome = IF audit = "fails" THEN "not_logged" ELSE "logged"]

\* the call up to the point where it suspends in execute_runbook, or up to the
\* return of _execute_action_specific when nothing is executed
ExecuteActionBegin(a, audit) ==
  /\ actions[a].exists
  /\ actions[a].pc = "idle"
  /\ calls < MaxCalls
  /\ calls' = calls + 1
  /\ UNCHANGED <<config, is_running, derivedVars, taskVars, incidentVars, now>>
  /\ IF AgentNotActive
     THEN \* the except branch of execute_action; its log_action is the first
          \* of the call
          /\ error_count < MaxErrorCount
          /\ error_count' = CountError(error_count)
          /\ metrics' = [metrics EXCEPT !.actions_executed = @ + 1,
                                        !.actions_failed = @ + 1]
          /\ actions' = [actions EXCEPT ![a].status = "failed"]
          /\ op' = [Op("execute_action") EXCEPT
                      !.raised = (audit # "ok"),
                      !.outcome = IF audit # "ok" THEN "not_logged" ELSE "logged"]
     ELSE /\ UNCHANGED <<error_count, metrics>>
          /\ op' = Op("other")
          /\ LET exec == [actions[a] EXCEPT !.status = "executing"]
                 found == ActiveWithId(exec.incident_id)
             IN IF exec.type # "incident_resolve"
                THEN actions' = [actions EXCEPT ![a] =
                       [exec EXCEPT !.pc = "specific_returned",
                                    !.result = "unsupported"]]
                ELSE IF found = {}
                THEN actions' = [actions EXCEPT ![a] =
                       [exec EXCEPT !.pc = "specific_returned",
                                    !.result = "incident_not_found"]]
                ELSE IF RunbookLookup(exec.runbook_id) = {}
                THEN actions' = [actions EXCEPT ![a] =
                       [exec EXCEPT !.pc = "specific_returned",
                                    !.result = "runbook_not_found"]]
                ELSE actions' = [actions EXCEPT ![a] =
                       [exec EXCEPT !.pc = "in_runbook",
                                    !.inc = CHOOSE i \in found : TRUE,
                                    !.result = "none"]]

\* the rest of the call: the runbook has returned, the incident is updated,
\* the action gets its final status, the metrics are counted and the action is
\* logged
ExecuteActionReturn(a, audit) ==
  /\ actions[a].exists
  /\ UNCHANGED <<config, is_running, calls, derivedVars, taskVars, now>>
  /\ \/ /\ actions[a].pc = "specific_returned"
        /\ UNCHANGED incidentVars
        /\ ReturnResult(a, FALSE, audit)
     \/ /\ actions[a].pc = "in_runbook"
        /\ LET i == actions[a].inc
               inc == incidents[i]
               key == CHOOSE k \in RunbookLookup(actions[a].runbook_id) : TRUE
           IN IF ExecuteRunbookSuccess(key)
              THEN /\ incidents' = [incidents EXCEPT ![i] = ResolveIncident(inc)]
                   /\ IF ActiveWithId(inc.id) # {}
                      THEN \* del self.active_incidents[incident_id]
                           /\ active_incidents' =
                                active_incidents \ ActiveWithId(inc.id)
                           /\ ReturnResult(a, TRUE, audit)
                      ELSE \* KeyError, caught: a failed result
                           /\ UNCHANGED active_incidents
                           /\ ReturnResult(a, FALSE, audit)
              ELSE /\ inc.resolution_attempts < MaxAttemptsSeen
                   /\ incidents' = [incidents EXCEPT ![i] = RecordFailedAttempt(inc)]
                   /\ UNCHANGED active_incidents
                   /\ ReturnResult(a, FALSE, audit)

(***************************************************************************)
(* RunbookExecutor.execute_runbook                                         *)
(***************************************************************************)
SeqsUpTo(S, n) == UNION {[1..k -> S] : k \in 0..n}

\* the runbooks a caller passes to execute_runbook
StepInputs ==
  {Step("ok", FALSE), Step("fail", FALSE), Step("fail", TRUE),
   Step("raise", FALSE)}
RollbackStepInputs == {Step("ok", FALSE), Step("raise", FALSE)}
CriterionInputs == {{}, {"running"}, {"latency", "error"}, NotAString}
RunbookInputs ==
  [steps : SeqsUpTo(StepInputs, MaxSteps),
   rollback_steps : SeqsUpTo(RollbackStepInputs, MaxRollbackSteps),
   success_criteria : SeqsUpTo(CriterionInputs, MaxCriteria)]

\* execution_result and the position of the call: log is the sequence of
\* _execute_step calls made, pending the local list of _perform_rollback,
\* in_handler whether the rollback in progress is the one of the except branch
NoExecution ==
  [pc |-> "idle",
   rb |-> [steps |-> <<>>, rollback_steps |-> <<>>, success_criteria |-> <<>>],
   i |-> 0, j |-> 0, in_handler |-> FALSE, log |-> <<>>, pending |-> <<>>,
   steps_executed |-> <<>>, rollback_steps |-> <<>>,
   rollback_recorded |-> FALSE, rollback_performed |-> FALSE,
   success |-> FALSE, error |-> FALSE, raised |-> FALSE]

\* variant: an error of the rollback in the except branch leaves the call
RollbackErrorPropagates == TRUE

\* "except Exception as rollback_error": the error is only logged
RollbackErrorRaises == FALSE

\* finally, and "return execution_result"
Finish(e) == [e EXCEPT !.pc = "returned"]

\* _perform_rollback has returned: rollback_performed is set, then the break
\* to the success criteria, or the end of the except branch
AfterRollback(e) ==
  IF e.in_handler THEN Finish([e EXCEPT !.rollback_performed = TRUE])
  ELSE [e EXCEPT !.rollback_performed = TRUE, !.pc = "criteria"]

\* the call of _perform_rollback: it returns at once without rollback steps
EnterRollback(e, handler) ==
  IF e.rb.rollback_steps = <<>>
  THEN AfterRollback([e EXCEPT !.in_handler = handler])
  ELSE [e EXCEPT !.pc = "rollback", !.j = 1, !.in_handler = handler,
                 !.pending = <<>>]

\* "except Exception as e": the error is recorded, a rollback is attempted
HandleException(e) == EnterRollback([e EXCEPT !.error = TRUE], TRUE)

\* "finally": the execution_result of a call that returns is appended to
\* execution_history
RecordExecution ==
  execution_history' =
    IF execution'.pc = "returned"
      THEN Append(execution_history, [success |-> execution'.success])
      ELSE execution_history

\* each call builds its own execution_result and shares nothing with the
\* calls before it but the history list
ExecuteRunbook(rb) ==
  /\ execution.pc \in {"idle", "returned"}
  /\ Len(execution_history) < MaxHistoryEntries
  /\ execution' = [NoExecution EXCEPT !.pc = "steps", !.rb = rb, !.i = 1]
  /\ RecordExecution
  /\ UNCHANGED <<progVars, op, registryVars, call, peerVars>>

\* one pass of "for i, step in enumerate(runbook.steps)"
RunbookStep ==
  /\ execution.pc = "steps"
  /\ LET e == execution
     IN IF e.i > Len(e.rb.steps)
        THEN execution' = [e EXCEPT !.pc = "criteria"]
        ELSE LET step == e.rb.steps[e.i]
                 called == [e EXCEPT !.log = Append(@, <<"step", e.i>>)]
             IN CASE step.outcome = "raise" ->
                       execution' = HandleException(called)
                  [] step.outcome = "ok" ->
                       execution' = [called EXCEPT
                         !.steps_executed = Append(@, TRUE), !.i = @ + 1]
                  [] step.outcome = "fail" ->
                       LET failed == [called EXCEPT
                                        !.steps_executed = Append(@, FALSE)]
                       IN IF step.critical
                          THEN execution' = EnterRollback(failed, FALSE)
                          ELSE execution' = [failed EXCEPT !.i = @ + 1]
  /\ RecordExecution
  /\ UNCHANGED <<progVars, op, registryVars, call, peerVars>>

\* one pass of "for step in runbook.rollback_steps" in _perform_rollback
RollbackStep ==
  /\ execution.pc = "rollback"
  /\ LET e == execution
         step == e.rb.rollback_steps[e.j]
         called == [e EXCEPT !.log = Append(@, <<"rollback", e.j>>)]
     IN IF step.outcome = "raise"
        THEN IF e.in_handler
             THEN execution' =
                    Finish([called EXCEPT !.raised = RollbackErrorRaises])
             ELSE execution' = HandleException(called)
        ELSE LET done == [called EXCEPT
                            !.pending = Append(@, step.outcome = "ok"),
                            !.j = @ + 1]
             IN IF done.j > Len(e.rb.rollback_steps)
                THEN execution' = AfterRollback(
                       [done EXCEPT !.rollback_steps = done.pending,
                                    !.rollback_recorded = TRUE])
                ELSE execution' = done
  /\ RecordExecution
  /\ UNCHANGED <<progVars, op, registryVars, call, peerVars>>

\* "success = await self._check_success_criteria(...)" and the return
CheckCriteria ==
  /\ execution.pc = "criteria"
  /\ execution' =
       IF CheckRaises(execution.rb) THEN HandleException(execution)
       ELSE Finish([execution EXCEPT
                      !.success = CheckSuccessCriteria(execution.rb)])
  /\ RecordExecution
  /\ UNCHANGED <<progVars, op, registryVars, call, peerVars>>

\* no function of the components has been called
NoResult == [fn |-> "none"]

(***************************************************************************)
(* Calls of should_escalate and _assess_resolution_risk                    *)
(***************************************************************************)
\* the instants at which should_escalate can change its answer
EscalationInstants ==
  {0, HighSeverityDelay - 1, HighSeverityDelay, FailedAutomationDelay,
   LongRunningSeconds, LongRunningSeconds + 1}

\* the incidents a caller passes to should_escalate at instant t
IncidentInputs(t) ==
  {[NoIncident EXCEPT !.exists = TRUE, !.severity = sev, !.status = st,
                      !.automated_resolution = auto, !.detected_at = 0,
                      !.resolved_at = res] :
     sev \in Severities, st \in {"open", "resolved"}, auto \in BOOLEAN,
     res \in {NoTime} \cup {r \in EscalationInstants : r <= t}}

\* should_escalate(incident) when the clock reads t
ShouldEscalateCall(inc, t) ==
  /\ t >= now
  /\ now' = t
  /\ call' = [fn |-> "should_escalate", incident |-> inc, at |-> t,
              result |-> ShouldEscalate(inc)']
  /\ UNCHANGED <<agentVars, taskVars, incidentVars, actions, op, registryVars,
                 executorVars, peerVars>>

RunbookRiskLevels == {"low", "medium", "high"}

\* variant: the runbook is not looked at
AssessResolutionRiskBySeverity(severity, risk_level) ==
  IF severity = "critical" THEN "HIGH"
  ELSE IF severity = "high" THEN "MEDIUM"
  ELSE "LOW"

\* _assess_resolution_risk(incident, runbook), as a RiskLevel
AssessResolutionRisk(severity, risk_level) ==
  IF severity = "critical" THEN "HIGH"
  ELSE IF severity = "high" \/ risk_level = "high" THEN "MEDIUM"
  ELSE "LOW"

AssessResolutionRiskCall(severity, risk_level) ==
  /\ call' = [fn |-> "_assess_resolution_risk", severity |-> severity,
              risk_level |-> risk_level,
              result |-> AssessResolutionRisk(severity, risk_level)]
  /\ UNCHANGED <<progVars, op, registryVars, executorVars, peerVars>>

(***************************************************************************)
(* AlertCorrelator; timestamps are in minutes                              *)
(***************************************************************************)
Alert(id, timestamp, severity, source) ==
  [id |-> id, timestamp |-> timestamp, severity |-> severity,
   source |-> source, resource |-> "web-app"]

\* sorted(alerts, key=lambda a: a.timestamp): alerts of equal timestamp keep
\* their order
InsertByTimestamp(sorted, alert) ==
  LET k == Cardinality({n \in 1..Len(sorted) :
                          sorted[n].timestamp <= alert.timestamp})
  IN SubSeq(sorted, 1, k) \o <<alert>> \o SubSeq(sorted, k + 1, Len(sorted))

RECURSIVE SortedByTimestamp(_)
SortedByTimestamp(alerts) ==
  IF alerts = <<>> THEN <<>>
  ELSE InsertByTimestamp(SortedByTimestamp(SubSeq(alerts, 1, Len(alerts) - 1)),
                         alerts[Len(alerts)])

\* variant: the window starts again at every alert that joins the group
WindowStartSliding(window_start, alert) == alert.timestamp

\* current_window_start after an alert has joined the current group
WindowStartAfterJoin(window_start, alert) == window_start

\* the loop of _group_alerts_by_time; window_start is NoTime for None
RECURSIVE GroupLoop(_, _, _, _)
GroupLoop(rest, groups, current_group, window_start) ==
  IF rest = <<>>
  THEN IF current_group # <<>> THEN Append(groups, current_group) ELSE groups
  ELSE LET alert == Head(rest)
       IN IF window_start = NoTime
          THEN GroupLoop(Tail(rest), groups, <<alert>>, alert.timestamp)
          ELSE IF alert.timestamp - window_start <= CorrelationWindow
          THEN GroupLoop(Tail(rest), groups, Append(current_group, alert),
                         WindowStartAfterJoin(window_start, alert))
          ELSE GroupLoop(Tail(rest),
                         IF current_group # <<>>
                         THEN Append(groups, current_group) ELSE groups,
                         <<alert>>, alert.timestamp)

GroupAlertsByTime(alerts) ==
  GroupLoop(SortedByTimestamp(alerts), <<>>, <<>>, NoTime)

SeverityOrder(severity) ==
  CASE severity = "low" -> 1
    [] severity = "medium" -> 2
    [] severity = "high" -> 3
    [] severity = "critical" -> 4
    [] OTHER -> 1

\* max(alerts, key=...): the first alert of the highest severity
MaxSeverityAlert(alerts) ==
  LET top == {k \in 1..Len(alerts) :
                \A n \in 1..Len(alerts) :
                  SeverityOrder(alerts[n].severity) <= SeverityOrder(alerts[k].severity)}
  IN alerts[CHOOSE k \in top : \A n \in top : k <= n]

\* _create_incident_from_alerts
CreateIncidentFromAlerts(alerts) ==
  [alerts |-> alerts,
   severity |-> MaxSeverityAlert(alerts).severity,
   detected_at |-> CHOOSE t \in {alerts[k].timestamp : k \in 1..Len(alerts)} :
                     \A k \in 1..Len(alerts) : t <= alerts[k].timestamp,
   alert_count |-> Len(alerts)]

\* the label fit_predict gives to an outlier
Noise == 0 - 1

\* variant: all outliers are stored under one key
OutlierKeyShared(i) == <<"outlier", 0>>

\* f"outlier_{i}"
OutlierKey(i) == <<"outlier", i>>

\* clustered_alerts[key] = value
DictSet(dict, key, value) ==
  IF \E n \in 1..Len(dict) : dict[n].key = key
  THEN [n \in 1..Len(dict) |->
          IF dict[n].key = key THEN [key |-> key, value |-> value] ELSE dict[n]]
  ELSE Append(dict, [key |-> key, value |-> value])

\* clustered_alerts[key].append(alert), on a defaultdict(list)
DictAppend(dict, key, alert) ==
  IF \E n \in 1..Len(dict) : dict[n].key = key
  THEN [n \in 1..Len(dict) |->
          IF dict[n].key = key
          THEN [key |-> key, value |-> Append(dict[n].value, alert)]
          ELSE dict[n]]
  ELSE Append(dict, [key |-> key, value |-> <<alert>>])

\* "for i, cluster_id in enumerate(clusters)"
RECURSIVE ClusterLoop(_, _, _, _)
ClusterLoop(group, labels, i, dict) ==
  IF i > Len(group) THEN dict
  ELSE IF labels[group[i].id] = Noise
  THEN ClusterLoop(group, labels, i + 1,
                   DictSet(dict, OutlierKey(i), <<group[i]>>))
  ELSE ClusterLoop(group, labels, i + 1,
                   DictAppend(dict, <<"cluster", labels[group[i].id]>>, group[i]))

\* _correlate_alert_group: labels[id] is the label fit_predict gives to the
\* alert; when there are no features, or the clustering raises (fitted is
\* false), every alert becomes an incident of its own
CorrelateAlertGroup(group, labels, fitted) ==
  IF Len(group) = 1 THEN <<CreateIncidentFromAlerts(group)>>
  ELSE IF ~fitted
  THEN [k \in 1..Len(group) |-> CreateIncidentFromAlerts(<<group[k]>>)]
  ELSE LET dict == ClusterLoop(group, labels, 1, <<>>)
       IN [n \in 1..Len(dict) |-> CreateIncidentFromAlerts(dict[n].value)]

\* correlate_alerts: the incidents of the time groups, one group after the
\* other (its except branch is not reached by alerts whose fields have their
\* declared types and whose timestamps can be compared)
RECURSIVE CorrelateGroups(_, _, _)
CorrelateGroups(groups, labels, fitted) ==
  IF groups = <<>> THEN <<>>
  ELSE CorrelateAlertGroup(Head(groups), labels, fitted)
         \o CorrelateGroups(Tail(groups), labels, fitted)

CorrelateAlerts(alerts, labels, fitted) ==
  IF alerts = <<>> THEN <<>>
  ELSE CorrelateGroups(GroupAlertsByTime(alerts), labels, fitted)

\* the numerical features of an alert: severity, source hash, hour and day;
\* they are whole numbers, so two alerts that differ in one of them are more
\* than eps = 0.3 apart; the texts of the alerts modelled are the same
Hour(alert) == (alert.timestamp \div 60) % 24
Weekday(alert) == (alert.timestamp \div 1440) % 7
Neighbours(a, b) ==
  /\ SeverityOrder(a.severity) = SeverityOrder(b.severity)
  /\ a.source = b.source
  /\ Hour(a) = Hour(b)
  /\ Weekday(a) = Weekday(b)

\* DBSCAN(eps=0.3, min_samples=2).fit_predict on the features of the group:
\* an alert without neighbour is noise, neighbours share a cluster
FitPredictGives(group, labels) ==
  \A k \in 1..Len(group) :
    /\ labels[group[k].id] = Noise <=>
         ~\E n \in 1..Len(group) : n # k /\ Neighbours(group[k], group[n])
    /\ \A n \in 1..Len(group) :
         (labels[group[k].id] # Noise /\ labels[group[n].id] # Noise) =>
           (labels[group[k].id] = labels[group[n].id]
              <=> Neighbours(group[k], group[n]))

\* the alert lists the callers pass
GroupingTimestamps == {0, 5, 10, 15, 20}
GroupingInputs ==
  UNION {{[i \in 1..n |-> Alert(i, f[i], "high", "prometheus")] :
            f \in [1..n -> GroupingTimestamps]} : n \in 0..MaxAlerts}

CorrelationTimestamps == {0, 1, 20}
CorrelationSeverities == {"medium", "high", "critical"}
CorrelationSources == {"prometheus", "kubernetes"}
CorrelationInputs ==
  UNION {{[i \in 1..n |-> Alert(i, f[i][1], f[i][2], f[i][3])] :
            f \in [1..n -> CorrelationTimestamps \X CorrelationSeverities
                             \X CorrelationSources]} : n \in 0..MaxAlerts}

\* the labels fit_predict may return for n alerts
Labellings(n) == [1..n -> {Noise, 0, 1}]

GroupAlertsByTimeCall(alerts) ==
  /\ call' = [fn |-> "_group_alerts_by_time", alerts |-> alerts,
              result |-> GroupAlertsByTime(alerts)]
  /\ UNCHANGED <<progVars, op, registryVars, executorVars, peerVars>>

CorrelateAlertsCall(alerts, labels, fitted) ==
  /\ fitted \/ \A i \in 1..Len(alerts) : labels[i] = Noise
  /\ call' = [fn |-> "correlate_alerts", alerts |-> alerts, labels |-> labels,
              fitted |-> fitted,
              result |-> CorrelateAlerts(alerts, labels, fitted)]
  /\ UNCHANGED <<progVars, op, registryVars, executorVars, peerVars>>

(***************************************************************************)
(* Time                                                                    *)
(***************************************************************************)
\* the clock moves on to the next of the instants at which the escalation
\* sweep can change its answer for an open incident
ClockPoints == <<0, HighSeverityDelay, FailedAutomationDelay>>

Tick ==
  /\ \E n \in 1..(Len(ClockPoints) - 1) :
        now = ClockPoints[n] /\ now' = ClockPoints[n + 1]
  /\ op' = Op("other")
  /\ UNCHANGED <<agentVars, taskVars, incidentVars, actions>>

(***************************************************************************)
(* AgentRegistry and AgentManager                                          *)
(***************************************************************************)
AgentIds == 1..NumAgentIds
InstanceSlots == 1..NumInstances
CallerSlots == 1..NumCallers

\* an agent object as the registry and the manager use it: its id, its running
\* flag, and whether a start() the manager called on it has returned
NoInstance ==
  [exists |-> FALSE, id |-> 0, is_running |-> FALSE, started |-> FALSE]

\* an entry of the agents dict; a deleted entry stays in the table, empty, and
\* a new key is appended (agent_configs has the same keys at every suspension)
NoEntry == [key |-> 0, agent |-> 0]

\* the iterator of "for agent_id, agent in self.agents.items()": the size of
\* the dict when it was created, the next entry it looks at, and the number of
\* items it still expects
NoIter == [used |-> 0, pos |-> 1, len |-> 0]

\* a call on the registry or the manager: where it is suspended, the agent it
\* is starting or stopping, the ids it still has to handle, and what it did
NoCall ==
  [op |-> "none", pc |-> "idle", inst |-> 0, it |-> NoIter, todo |-> <<>>,
   failed |-> {}, started |-> {}, raised |-> "none"]

CallerFree(c) == callers[c].pc \in {"idle", "done"}

\* len(self.agents)
Used(es) == Cardinality({k \in 1..Len(es) : es[k].key # 0})

\* the entry of a key, if the dict has the key
EntryOf(es, id) == {k \in 1..Len(es) : es[k].key = id}

\* list(self.registry.agents.keys())
KeysOf(es) ==
  LET live == SelectSeq(es, LAMBDA e : e.key # 0)
  IN [i \in 1..Len(live) |-> live[i].key]

\* del self.agents[agent_id]; del self.agent_configs[agent_id]
DeleteEntry(es, k) == [es EXCEPT ![k] = NoEntry]

\* register_agent: a key that is present is left alone
RegisterEntry(es, id, n) ==
  IF EntryOf(es, id) # {} THEN es ELSE Append(es, [key |-> id, agent |-> n])

FreeInstance(n) ==
  /\ ~instances[n].exists
  /\ \A m \in InstanceSlots : m < n => instances[m].exists

IterStart(es) == [used |-> Used(es), pos |-> 1, len |-> Used(es)]

\* the for loop over agents.items(), from the iterator's position to the
\* first agent whose running flag is "wanted" (the one the body awaits on), to
\* the end of the dict, or to the RuntimeError the iterator raises when the
\* dict changed size or holds an item the iterator does not expect
RECURSIVE Walk(_, _, _, _)
Walk(it, es, insts, wanted) ==
  IF it.used # Used(es) THEN [kind |-> "error", it |-> it, k |-> 0]
  ELSE LET cand == {k \in it.pos..Len(es) : es[k].key # 0}
       IN IF cand = {} THEN [kind |-> "stop", it |-> it, k |-> 0]
          ELSE IF it.len = 0 THEN [kind |-> "error", it |-> it, k |-> 0]
          ELSE LET k == CHOOSE x \in cand : \A y \in cand : x <= y
                   nit == [it EXCEPT !.pos = k + 1, !.len = @ - 1]
               IN IF insts[es[k].agent].is_running = wanted
                  THEN [kind |-> "item", it |-> nit, k |-> k]
                  ELSE Walk(nit, es, insts, wanted)

\* unregister_agent for the ids of todo in turn, up to the first agent that is
\* running: its stop() suspends the caller
RECURSIVE UnregisterAll(_, _, _)
UnregisterAll(es, insts, todo) ==
  IF todo = <<>>
  THEN [agents |-> es, instances |-> insts, todo |-> todo, pc |-> "done",
        inst |-> 0]
  ELSE LET e == EntryOf(es, Head(todo))
       IN IF e = {} THEN UnregisterAll(es, insts, Tail(todo))
          ELSE LET k == CHOOSE x \in e : TRUE
                   n == es[k].agent
               IN IF insts[n].is_running
                  THEN [agents |-> es,
                        instances |-> [insts EXCEPT ![n].is_running = FALSE],
                        todo |-> todo, pc |-> "in_unregister", inst |-> n]
                  ELSE UnregisterAll(DeleteEntry(es, k), insts, Tail(todo))

\* AgentRegistry.register_agent, called with an agent object made for the id
RegisterAgent(c, id) ==
  /\ CallerFree(c)
  /\ Len(agents) < MaxEntries
  /\ \E n \in InstanceSlots :
       /\ FreeInstance(n)
       /\ instances' = [instances EXCEPT ![n] =
            [NoInstance EXCEPT !.exists = TRUE, !.id = id]]
       /\ agents' = RegisterEntry(agents, id, n)
  /\ callers' = [callers EXCEPT ![c] =
       [NoCall EXCEPT !.op = "register_agent", !.pc = "done"]]
  /\ UNCHANGED agentSideVars

\* the caller goes on unregistering: shared by unregister_agent and
\* shutdown_all_agents
Unregistering(c, name, es, todo) ==
  LET r == UnregisterAll(es, instances, todo)
  IN /\ agents' = r.agents
     /\ instances' = r.instances
     /\ callers' = [callers EXCEPT ![c] =
          [NoCall EXCEPT !.op = name, !.pc = r.pc, !.todo = r.todo,
                         !.inst = r.inst]]

\* AgentRegistry.unregister_agent up to its return or to the await of stop()
UnregisterAgent(c, id) ==
  /\ CallerFree(c)
  /\ Unregistering(c, "unregister_agent", agents, <<id>>)
  /\ UNCHANGED agentSideVars

\* stop() has returned: the entry is deleted, which raises KeyError when the
\* key is gone
UnregisterResume(c) ==
  /\ callers[c].pc = "in_unregister"
  /\ LET e == EntryOf(agents, Head(callers[c].todo))
     IN IF e = {}
        THEN /\ callers' = [callers EXCEPT ![c].pc = "done",
                                           ![c].raised = "KeyError"]
             /\ UNCHANGED <<agents, instances>>
        ELSE Unregistering(c, callers[c].op,
                           DeleteEntry(agents, CHOOSE x \in e : TRUE),
                           Tail(callers[c].todo))
  /\ UNCHANGED agentSideVars

\* start_all_agents, stop_all_agents and the first half of
\* shutdown_all_agents run the loop to its next suspension
Iterating(c, name, it, insts, wanted) ==
  LET w == Walk(it, agents, insts, wanted)
  IN CASE w.kind = "error" ->
            /\ instances' = insts
            /\ callers' = [callers EXCEPT ![c] =
                 [NoCall EXCEPT !.op = name, !.pc = "done",
                                !.raised = "RuntimeError"]]
            /\ UNCHANGED agents
       [] w.kind = "item" ->
            /\ instances' =
                 [insts EXCEPT ![agents[w.k].agent].is_running = ~wanted]
            /\ callers' = [callers EXCEPT ![c] =
                 [NoCall EXCEPT !.op = name, !.pc = "in_agent",
                                !.inst = agents[w.k].agent, !.it = w.it]]
            /\ UNCHANGED agents
       [] w.kind = "stop" /\ name # "shutdown_all_agents" ->
            /\ instances' = insts
            /\ callers' = [callers EXCEPT ![c] =
                 [NoCall EXCEPT !.op = name, !.pc = "done"]]
            /\ UNCHANGED agents
       [] w.kind = "stop" /\ name = "shutdown_all_agents" ->
            \* "agent_ids = list(self.registry.agents.keys())" and the
            \* unregister_agent calls
            LET r == UnregisterAll(agents, insts, KeysOf(agents))
            IN /\ agents' = r.agents
               /\ instances' = r.instances
               /\ callers' = [callers EXCEPT ![c] =
                    [NoCall EXCEPT !.op = name, !.pc = r.pc, !.todo = r.todo,
                                   !.inst = r.inst]]

\* AgentRegistry.start_all_agents up to the first await of agent.start()
StartAllAgents(c) ==
  /\ CallerFree(c)
  /\ Iterating(c, "start_all_agents", IterStart(agents), instances, FALSE)
  /\ UNCHANGED agentSideVars

\* agent.start() returns or raises (is_running is rolled back, the error is
\* caught in the loop body), and the loop goes on
StartAllResume(c, ok) ==
  /\ callers[c].pc = "in_agent"
  /\ callers[c].op = "start_all_agents"
  /\ Iterating(c, "start_all_agents", callers[c].it,
               IF ok THEN instances
               ELSE [instances EXCEPT ![callers[c].inst].is_running = FALSE],
               FALSE)
  /\ UNCHANGED agentSideVars

\* AgentRegistry.stop_all_agents, and AgentManager.shutdown_all_agents which
\* begins with it
StopAllAgents(c, name) ==
  /\ CallerFree(c)
  /\ Iterating(c, name, IterStart(agents), instances, TRUE)
  /\ UNCHANGED agentSideVars

StopAllResume(c) ==
  /\ callers[c].pc = "in_agent"
  /\ callers[c].op \in {"stop_all_agents", "shutdown_all_agents"}
  /\ Iterating(c, callers[c].op, callers[c].it, instances, TRUE)
  /\ UNCHANGED agentSideVars

\* variant: the first failure ends the loop
AbortAfterFailure(todo) == <<>>

\* the configs load_and_start_agents still handles after one of them failed:
\* the except inside the loop only logs
AfterFailure(todo) == Tail(todo)

\* AgentManager.load_and_start_agents: get_all_configs returns the configs,
\* all enabled, or raises
LoadAndStartAgents(c, loaded) ==
  /\ CallerFree(c)
  /\ callers' = [callers EXCEPT ![c] =
       IF loaded
       THEN [NoCall EXCEPT !.op = "load_and_start_agents", !.pc = "loading",
                           !.todo = [i \in AgentIds |-> i]]
       ELSE [NoCall EXCEPT !.op = "load_and_start_agents", !.pc = "done",
                           !.raised = "ConfigError"]]
  /\ UNCHANGED <<agents, instances, agentSideVars>>

\* the next config of the loop: create_and_register_agent, which raises when
\* the factory or initialize raises, then the await of agent.start()
LoadNext(c, created) ==
  /\ callers[c].pc = "loading"
  /\ LET id == Head(callers[c].todo)
         rest == AfterFailure(callers[c].todo)
     IN IF ~created
        THEN /\ callers' = [callers EXCEPT
                  ![c].failed = @ \cup {id}, ![c].todo = rest,
                  ![c].pc = IF rest = <<>> THEN "done" ELSE "loading"]
             /\ UNCHANGED <<agents, instances>>
        ELSE /\ Len(agents) < MaxEntries
             /\ \E n \in InstanceSlots :
                  /\ FreeInstance(n)
                  /\ instances' = [instances EXCEPT ![n] =
                       [NoInstance EXCEPT !.exists = TRUE, !.id = id,
                                          !.is_running = TRUE]]
                  /\ agents' = RegisterEntry(agents, id, n)
                  /\ callers' = [callers EXCEPT ![c].pc = "in_agent",
                                                ![c].inst = n]
  /\ UNCHANGED agentSideVars

\* agent.start() returns or raises, and the loop goes on to the next config
LoadResume(c, ok) ==
  /\ callers[c].pc = "in_agent"
  /\ callers[c].op = "load_and_start_agents"
  /\ LET id == Head(callers[c].todo)
         n == callers[c].inst
         rest == IF ok THEN Tail(callers[c].todo)
                 ELSE AfterFailure(callers[c].todo)
     IN /\ instances' = IF ok THEN [instances EXCEPT ![n].started = TRUE]
                        ELSE [instances EXCEPT ![n].is_running = FALSE]
        /\ callers' = [callers EXCEPT
             ![c].started = IF ok THEN @ \cup {id} ELSE @,
             ![c].failed = IF ok THEN @ ELSE @ \cup {id},
             ![c].todo = rest, ![c].inst = 0,
             ![c].pc = IF rest = <<>> THEN "done" ELSE "loading"]
  /\ UNCHANGED <<agents, agentSideVars>>

(***************************************************************************)
(* KubernetesAgent: the scaling decision and its cooldown                  *)
(***************************************************************************)
\* confidence is in percent, cpu requests in thousandths of a core and
\* memory requests in Mi, the units predict_scaling_needs formats them in
Deployments == {"production/web-app", "production/api-service"}

ScalingRecommendation(key, confidence, replicas, cpu, memory) ==
  [key |-> key, confidence |-> confidence,
   current_replicas |-> 3, recommended_replicas |-> replicas,
   current_cpu_request |-> 300, recommended_cpu_request |-> cpu,
   current_memory_request |-> 256, recommended_memory_request |-> memory]

Recommendations ==
  {ScalingRecommendation(key, confidence, replicas, cpu, memory) :
     key \in Deployments, confidence \in {50, 90}, replicas \in {3, 5},
     cpu \in {310, 400}, memory \in {260, 512}}

\* "if len(history) > limit: history = history[-limit:]"
KeepLast(history, limit) ==
  IF Len(history) > limit
    THEN SubSeq(history, Len(history) - limit + 1, Len(history))
    ELSE history

Abs(n) == IF n < 0 THEN 0 - n ELSE n
Largest(a, b) == IF a > b THEN a ELSE b

\* less than 10% change of both requests
InsignificantChange(rec) ==
  /\ 10 * Abs(rec.recommended_cpu_request - rec.current_cpu_request)
       < Largest(rec.current_cpu_request, 1)
  /\ 10 * Abs(rec.recommended_memory_request - rec.current_memory_request)
       < Largest(rec.current_memory_request, 1)

\* variant: a confident recommendation is exempt from the cooldown
InCooldownUnlessConfident(rec) ==
  /\ rec.confidence < 90
  /\ last_scaling_decisions[rec.key] # NoTime
  /\ now - last_scaling_decisions[rec.key] < ScalingCooldown

\* the cooldown check of _should_scale
InCooldown(rec) ==
  /\ last_scaling_decisions[rec.key] # NoTime
  /\ now - last_scaling_decisions[rec.key] < ScalingCooldown

ShouldScale(rec) ==
  IF rec.confidence < ScalingThreshold THEN FALSE
  ELSE IF /\ rec.recommended_replicas = rec.current_replicas
          /\ InsignificantChange(rec) THEN FALSE
  ELSE IF InCooldown(rec) THEN FALSE
  ELSE TRUE

\* the instants around the end of a cooldown
ScalingInstants ==
  {0, ScalingCooldown - 200, ScalingCooldown - 1, ScalingCooldown,
   2 * ScalingCooldown - 200, 2 * ScalingCooldown - 1}

\* _should_scale(recommendation) when the clock reads t
ShouldScaleCall(rec, t) ==
  /\ t >= now
  /\ now' = t
  /\ UNCHANGED <<agentVars, taskVars, incidentVars, actions, op, registryVars,
                 executorVars, peerVars>>
  /\ call' = [fn |-> "_should_scale", recommendation |-> rec, at |-> t,
              result |-> ShouldScale(rec)']

\* _execute_scaling_action(action) when the clock reads t, for an action
\* whose recommendation is for deployment_key; scaler tells
\* whether self.scaler is set. The scaler's calls do not suspend.
ExecuteScalingAction(deployment_key, scaler, t) ==
  /\ t >= now
  /\ now' = t
  /\ Len(scaling_history) < MaxScalingActions
  /\ IF scaler
       THEN /\ last_scaling_decisions' =
                 [last_scaling_decisions EXCEPT ![deployment_key] = t]
            /\ scaling_history' =
                 KeepLast(Append(scaling_history,
                                 [timestamp |-> t, deployment |-> deployment_key]),
                          ScalingHistoryLimit)
       ELSE UNCHANGED <<last_scaling_decisions, scaling_history>>
  /\ call' = [fn |-> "_execute_scaling_action", deployment |-> deployment_key,
              at |-> t, result |-> scaler]
  /\ UNCHANGED <<agentVars, taskVars, incidentVars, actions, op, registryVars,
                 executorVars, monitorVars, drift_history, cost_history, flushVars>>

(***************************************************************************)
(* HealthMonitor                                                           *)
(***************************************************************************)
MonitoredAgents == {"agent-1", "agent-2"}
CheckNames == 1..MaxChecks
\* what a registered check does when awaited: it returns a result that
\* passed or failed, or it raises
CheckBehaviours == {"passed", "failed", "raises"}

\* register_health_check: an assignment to the dict
RegisterHealthCheck(name, check_func) ==
  /\ health_checks' =
       IF \E k \in 1..Len(health_checks) : health_checks[k].name = name
         THEN [k \in 1..Len(health_checks) |->
                 IF health_checks[k].name = name
                   THEN [name |-> name, check_func |-> check_func]
                   ELSE health_checks[k]]
         ELSE Append(health_checks, [name |-> name, check_func |-> check_func])
  /\ UNCHANGED <<progVars, op, registryVars, executorVars, call, scalingVars, flushVars,
                 health_history, drift_history, cost_history>>

\* the loop over health_checks.items(): the result of each check, a failed
\* result in place of a check that raised
RunChecks(checks) ==
  [k \in 1..Len(checks) |-> [passed |-> checks[k].check_func = "passed"]]

FailedChecks(check_results) ==
  {k \in 1..Len(check_results) : ~check_results[k].passed}

\* variant: exactly half of the checks failing is unhealthy already
OverallStatusBelowHalf(check_results) ==
  IF check_results = <<>> THEN "offline"
  ELSE IF Cardinality(FailedChecks(check_results)) = 0 THEN "healthy"
  ELSE IF 2 * Cardinality(FailedChecks(check_results)) < Len(check_results)
    THEN "degraded"
  ELSE "unhealthy"

\* "Determine overall health status"
OverallStatus(check_results) ==
  IF check_results = <<>> THEN "offline"
  ELSE IF Cardinality(FailedChecks(check_results)) = 0 THEN "healthy"
  ELSE IF Cardinality(FailedChecks(check_results))
            <= Len(check_results) \div 2 THEN "degraded"
  ELSE "unhealthy"

\* perform_health_check(agent_id); the checks and the alert callbacks act on
\* nothing of the monitor, and _check_for_alerts lets no error out
PerformHealthCheck(agent_id) ==
  LET check_results == RunChecks(health_checks)
      health_status ==
        [status |-> OverallStatus(check_results),
         error_count |-> Cardinality(FailedChecks(check_results))]
  IN /\ health_history' =
          [health_history EXCEPT ![agent_id] =
             KeepLast(Append(@, health_status), HealthHistoryLimit)]
     /\ call' = [fn |-> "perform_health_check", agent_id |-> agent_id,
                 checks |-> health_checks, check_results |-> check_results,
                 result |-> health_status]
     /\ UNCHANGED <<progVars, op, registryVars, executorVars, scalingVars,
                    health_checks, drift_history, cost_history, flushVars>>

(***************************************************************************)
(* TerraformAgent._check_for_drift, CostOptimizationAgent._update_cost_history *)
(***************************************************************************)
\* no state monitor, detect_drift raising, or its answer
DriftOutcomes == {"no_monitor", "raises", "clean", "drift"}

CheckForDrift(outcome) ==
  /\ drift_history' =
       IF outcome \in {"no_monitor", "raises"} THEN drift_history
       ELSE KeepLast(Append(drift_history,
                            [drift_detected |-> outcome = "drift"]),
                     DriftHistoryLimit)
  /\ UNCHANGED <<progVars, op, registryVars, executorVars, call, scalingVars, flushVars,
                 monitorVars, cost_history>>

\* get_cost_data raising, or the costs collected
CostOutcomes == {"raises", "collected"}

UpdateCostHistory(outcome) ==
  /\ cost_history' =
       IF outcome = "raises" THEN cost_history
       ELSE KeepLast(Append(cost_history, [actual_cost |-> 0]),
                     CostHistoryLimit)
  /\ UNCHANGED <<progVars, op, registryVars, executorVars, call, scalingVars, flushVars,
                 monitorVars, drift_history>>

(***************************************************************************)
(* BaseAgent.get_health_status                                             *)
(***************************************************************************)
\* variant: the thresholds themselves count as too many errors
StatusFromErrorsInclusive(running, errors) ==
  IF ~running THEN "offline"
  ELSE IF errors >= UnhealthyErrors THEN "unhealthy"
  ELSE IF errors >= DegradedErrors THEN "degraded"
  ELSE "healthy"

\* "Determine status based on various factors"
StatusFromErrors(running, errors) ==
  IF ~running THEN "offline"
  ELSE IF errors > UnhealthyErrors THEN "unhealthy"
  ELSE IF errors > DegradedErrors THEN "degraded"
  ELSE "healthy"

\* get_health_status() of an agent whose fields are running, errors and
\* start_time when the clock reads t; logged tells whether
\* log_health_status returned or raised
GetHealthStatus(running, errors, start_time, logged, t) ==
  /\ t >= now
  /\ now' = t
  /\ call' =
       [fn |-> "get_health_status", is_running |-> running,
        error_count |-> errors, raised |-> ~logged,
        result |->
          IF logged
            THEN [status |-> StatusFromErrors(running, errors),
                  uptime |-> IF start_time = NoTime THEN 0 ELSE t - start_time,
                  error_count |-> errors]
            ELSE [status |-> "none", uptime |-> 0, error_count |-> 0]]
  /\ UNCHANGED <<agentVars, taskVars, incidentVars, actions, op, registryVars,
                 executorVars, peerVars>>

(***************************************************************************)
(* IncidentResponseAgent: the alert buffer and its flush                   *)
(***************************************************************************)
EventIds == 1..MaxBufferedAlerts
AlertEventTypes == {"resource_anomaly", "infrastructure_drift"}

\* the events that become alerts: they come from one source at one minute
AlertEvents ==
  [id : EventIds, type : AlertEventTypes, severity : {"high", "critical"},
   source : {"kubernetes-agent"}, timestamp : {0}]

\* the Alert _convert_event_to_alert builds; the title is made of the event
\* type
AlertOfEvent(event) ==
  [id |-> event.id, timestamp |-> event.timestamp,
   severity |-> event.severity, source |-> event.source,
   title |-> <<event.type, "detected">>]

\* the title of an incident: that of its only alert, or the sources of its
\* alerts
IncidentTitle(alerts) ==
  IF Len(alerts) = 1 THEN alerts[1].title
  ELSE <<"Multiple alerts from", {alerts[k].source : k \in 1..Len(alerts)}>>

\* f"incident_{second}_{hash(title) % 10000}"; different titles are given
\* different hashes
IncidentId(alerts) == [t |-> now, h |-> IncidentTitle(alerts)]

\* the labels DBSCAN can give: alerts of one cluster are neighbours in their
\* numerical features, and a cluster has two alerts at least; whether
\* neighbours share a cluster is up to their texts
LabelsPossible(alerts, labels) ==
  \A k \in 1..Len(alerts) :
    labels[alerts[k].id] # Noise =>
      /\ \E n \in 1..Len(alerts) :
           n # k /\ labels[alerts[n].id] = labels[alerts[k].id]
      /\ \A n \in 1..Len(alerts) :
           labels[alerts[n].id] = labels[alerts[k].id] =>
             Neighbours(alerts[k], alerts[n])

\* pc and the locals of _process_alert_buffer: incidents is what
\* correlate_alerts returned, with the identifiers, i the incident whose
\* event is being published, stored the entries the assignments
\* "self.active_incidents[incident.id] = incident" of this call have made.
\* appended and correlated record the alerts ever buffered and how often
\* each alert was passed to correlate_alerts.
NoFlush ==
  [pc |-> "idle", incidents |-> <<>>, i |-> 0, stored |-> <<>>,
   appended |-> {}, correlated |-> [a \in EventIds |-> 0]]

\* _convert_event_to_alert, called by _process_event_specific
ConvertEventToAlert(event) ==
  /\ event.id \notin flush.appended
  /\ alert_buffer' = Append(alert_buffer, AlertOfEvent(event))
  /\ flush' = [flush EXCEPT !.appended = @ \cup {event.id}]
  /\ UNCHANGED <<progVars, op, registryVars, executorVars, call, scalingVars,
                 monitorVars, drift_history, cost_history>>

\* _process_new_incident(incidents[i]) up to publish_event, where it suspends
StoreIncident(f, i) ==
  [f EXCEPT !.pc = "publishing", !.i = i,
            !.stored = DictSet(@, f.incidents[i].id, i)]

\* _alert_correlation_loop finds alerts in the buffer: _process_alert_buffer
\* up to the first publish_event. correlate_alerts does not suspend.
ProcessAlertBuffer(labels, fitted) ==
  /\ flush.pc = "idle"
  /\ alert_buffer # <<>>
  /\ fitted => LabelsPossible(alert_buffer, labels)
  /\ LET copy == alert_buffer
         found == CorrelateAlerts(copy, labels, fitted)
         passed == [flush EXCEPT
                      !.correlated =
                        [a \in EventIds |->
                           IF \E k \in 1..Len(copy) : copy[k].id = a
                             THEN Saturate(@[a], 2) ELSE @[a]],
                      !.incidents =
                        [k \in 1..Len(found) |->
                           [id |-> IncidentId(found[k].alerts),
                            severity |-> found[k].severity,
                            alerts |-> {found[k].alerts[n].id :
                                          n \in 1..Len(found[k].alerts)}]],
                      !.stored = <<>>]
     IN flush' = StoreIncident(passed, 1)
  /\ UNCHANGED <<progVars, op, registryVars, executorVars, call, scalingVars,
                 monitorVars, drift_history, cost_history, alert_buffer>>

\* publish_event has returned or raised: the next incident, or
\* "self.alert_buffer.clear()" and the return
ProcessAlertBufferResume ==
  /\ flush.pc = "publishing"
  /\ IF flush.i < Len(flush.incidents)
       THEN /\ flush' = StoreIncident(flush, flush.i + 1)
            /\ UNCHANGED alert_buffer
       ELSE /\ flush' = [flush EXCEPT !.pc = "idle", !.i = 0]
            /\ alert_buffer' = <<>>
  /\ UNCHANGED <<progVars, op, registryVars, executorVars, call, scalingVars,
                 monitorVars, drift_history, cost_history>>

(***************************************************************************)
(* Specifications                                                          *)
(***************************************************************************)
\* BaseAgent.__init__ and IncidentResponseAgent.__init__
Init ==
  /\ config = NoConfig
  /\ is_running = FALSE
  /\ error_count = 0
  /\ metrics = [events_processed |-> 0, actions_executed |-> 0,
                actions_successful |-> 0, actions_failed |-> 0]
  /\ calls = 0
  /\ correlation_interval = DefaultCorrelationInterval
  /\ auto_resolution_enabled = TRUE
  /\ escalation_enabled = TRUE
  /\ max_resolution_attempts = DefaultMaxResolutionAttempts
  /\ tasks = [k \in TaskKinds |-> "none"]
  /\ leaked = [k \in TaskKinds |-> 0]
  /\ incidents = [i \in IncidentSlots |-> NoIncident]
  /\ active_incidents = {}
  /\ actions = [a \in ActionSlots |-> NoAction]
  /\ now = 0
  /\ op = Op("init")
  /\ agents = <<>>
  /\ instances = [n \in InstanceSlots |-> NoInstance]
  /\ callers = [c \in CallerSlots |-> NoCall]
  /\ execution = NoExecution
  /\ call = NoResult
  /\ last_scaling_decisions = [d \in Deployments |-> NoTime]
  /\ scaling_history = <<>>
  /\ execution_history = <<>>
  /\ health_checks = <<>>
  /\ health_history = [a \in MonitoredAgents |-> <<>>]
  /\ drift_history = <<>>
  /\ cost_history = <<>>
  /\ alert_buffer = <<>>
  /\ flush = NoFlush

Next ==
  /\ UNCHANGED <<registryVars, componentVars>>
  /\ \/ \E cfg \in Configs : Initialize(cfg)
     \/ \E cfg \in Configs : ReloadConfig(cfg)
     \/ \E f \in StartFailures : Start(f)
     \/ Stop
     \/ \E k \in LoopKinds : LoopTaskExits(k)
     \/ \E o \in {"done", "failed"} : WatchTaskEnds(o)
     \/ \E i \in IncidentSlots, sev \in Severities, h \in TitleHashes :
          ProcessNewIncident(i, sev, h)
     \/ CheckIncidentsForEscalation
     \/ \E k \in LoopKinds : LoopIterationError(k)
     \/ \E a \in ActionSlots, id \in KnownIds, t \in IncidentTypes,
           f \in EventFailures : ProcessEvent(a, id, t, f)
     \/ \E a \in ActionSlots, ty \in ActionTypes, id \in KnownIds, rb \in RunbookKeys :
          CreateAction(a, ty, id, rb)
     \/ \E a \in ActionSlots, audit \in AuditBehaviours : ExecuteActionBegin(a, audit)
     \/ \E a \in ActionSlots, audit \in AuditBehaviours : ExecuteActionReturn(a, audit)
     \/ Tick

Spec == Init /\ [][Next]_vars

\* Concurrent callers of the registry
NextRegistry ==
  \/ \E c \in CallerSlots, id \in AgentIds : RegisterAgent(c, id)
  \/ \E c \in CallerSlots, id \in AgentIds : UnregisterAgent(c, id)
  \/ \E c \in CallerSlots : UnregisterResume(c)
  \/ \E c \in CallerSlots : StartAllAgents(c)
  \/ \E c \in CallerSlots, ok \in BOOLEAN : StartAllResume(c, ok)
  \/ \E c \in CallerSlots : StopAllAgents(c, "stop_all_agents")
  \/ \E c \in CallerSlots : StopAllResume(c)

SpecRegistry == Init /\ [][NextRegistry]_vars

\* Callers of the manager
NextManager ==
  \/ \E c \in CallerSlots, loaded \in BOOLEAN : LoadAndStartAgents(c, loaded)
  \/ \E c \in CallerSlots, created \in BOOLEAN : LoadNext(c, created)
  \/ \E c \in CallerSlots, ok \in BOOLEAN : LoadResume(c, ok)
  \/ \E c \in CallerSlots : StopAllAgents(c, "shutdown_all_agents")
  \/ \E c \in CallerSlots : StopAllResume(c)

SpecManager == Init /\ [][NextManager]_vars

\* A runbook execution
NextRunbook ==
  \/ execution.pc = "idle" /\ \E rb \in RunbookInputs : ExecuteRunbook(rb)
  \/ RunbookStep
  \/ RollbackStep
  \/ CheckCriteria

SpecRunbook == Init /\ [][NextRunbook]_vars

\* Calls of the escalation rules and of the risk assessment
NextDecisions ==
  \/ \E t \in EscalationInstants : \E inc \in IncidentInputs(t) :
       ShouldEscalateCall(inc, t)
  \/ \E sev \in Severities, risk \in RunbookRiskLevels :
       AssessResolutionRiskCall(sev, risk)

SpecDecisions == Init /\ [][NextDecisions]_vars

\* A call of the alert correlator; the calls share no state
NextCorrelator ==
  \/ call = NoResult /\ \E alerts \in GroupingInputs :
       GroupAlertsByTimeCall(alerts)
  \/ call = NoResult /\ \E alerts \in CorrelationInputs :
       \E labels \in Labellings(Len(alerts)), fitted \in BOOLEAN :
         CorrelateAlertsCall(alerts, labels, fitted)

SpecCorrelator == Init /\ [][NextCorrelator]_vars

\* The Kubernetes agent judging recommendations and executing scaling actions
NextScaling ==
  \/ \E rec \in Recommendations, t \in ScalingInstants : ShouldScaleCall(rec, t)
  \/ \E key \in Deployments, scaler \in BOOLEAN, t \in ScalingInstants :
       ExecuteScalingAction(key, scaler, t)

SpecScaling == Init /\ [][NextScaling]_vars

\* The health monitor: checks are registered, then an agent is checked
NextHealth ==
  \/ call = NoResult /\ \E name \in CheckNames, f \in CheckBehaviours :
       RegisterHealthCheck(name, f)
  \/ call = NoResult /\ \E a \in MonitoredAgents : PerformHealthCheck(a)

SpecHealth == Init /\ [][NextHealth]_vars

\* A call of get_health_status on an agent in any state of its fields
NextStatus ==
  call = NoResult /\
    \E running \in BOOLEAN, errors \in 0..MaxErrorsReported,
       start_time \in {NoTime, 0}, logged \in BOOLEAN,
       t \in {0, HighSeverityDelay} :
      GetHealthStatus(running, errors, start_time, logged, t)

SpecStatus == Init /\ [][NextStatus]_vars

\* Events become alerts while the correlation loop flushes the buffer
NextFlush ==
  \/ \E event \in AlertEvents : ConvertEventToAlert(event)
  \/ \E labels \in [EventIds -> {Noise, 0}], fitted \in BOOLEAN :
       ProcessAlertBuffer(labels, fitted)
  \/ ProcessAlertBufferResume

SpecFlush == Init /\ [][NextFlush]_vars

\* The retained histories. They belong to different objects and share
\* nothing, so one history at a time is followed to its limit while the
\* others hold at most MaxOtherEntries entries together.
HistoryEntries ==
  Len(execution_history) + Len(drift_history) + Len(cost_history)
    + Len(health_history["agent-1"]) + Len(health_history["agent-2"])

OthersHold(history) == HistoryEntries - Len(history) <= MaxOtherEntries

HistoryRunbook ==
  [steps |-> <<Step("ok", FALSE)>>, rollback_steps |-> <<>>,
   success_criteria |-> <<>>]

NextHistories ==
  \/ OthersHold(execution_history) /\ ExecuteRunbook(HistoryRunbook)
  \/ RunbookStep
  \/ CheckCriteria
  \/ \E a \in MonitoredAgents :
       OthersHold(health_history[a]) /\ PerformHealthCheck(a)
  \/ \E o \in DriftOutcomes :
       /\ OthersHold(drift_history)
       /\ o = "drift" => Len(drift_history) < MaxOtherEntries
       /\ CheckForDrift(o)
  \/ \E o \in CostOutcomes : OthersHold(cost_history) /\ UpdateCostHistory(o)

SpecHistories == Init /\ [][NextHistories]_vars

\* The lifecycle alone: initialize, start, stop, reload_config and the tasks
LifecycleConfigs ==
  {c \in Configs : /\ c.enabled /\ c.auto_resolution_enabled
                   /\ c.correlation_interval = DefaultCorrelationInterval
                   /\ c.max_resolution_attempts \in {1, NotANumber}}

NextLifecycle ==
  /\ UNCHANGED <<registryVars, componentVars>>
  /\ \/ \E cfg \in LifecycleConfigs : Initialize(cfg)
     \/ \E cfg \in LifecycleConfigs : ReloadConfig(cfg)
     \/ \E f \in StartFailures : Start(f)
     \/ Stop
     \/ \E k \in LoopKinds : LoopTaskExits(k)
     \/ \E o \in {"done", "failed"} : WatchTaskEnds(o)

SpecLifecycle == Init /\ [][NextLifecycle]_vars

\* Incident handling on an agent whose initialize and start succeed
IncidentConfigs ==
  {c \in Configs : /\ c.enabled /\ c.auto_resolution_enabled
                   /\ c.correlation_interval = DefaultCorrelationInterval
                   /\ c.max_resolution_attempts # NotANumber}

\* the title hash of the first incident is arbitrary: it is taken to be 0
NextIncident ==
  /\ UNCHANGED <<registryVars, componentVars>>
  /\ \/ \E cfg \in IncidentConfigs : ~config.present /\ Initialize(cfg)
     \/ \E cfg \in IncidentConfigs : ReloadConfig(cfg)
     \/ ~is_running /\ Start("none")
     \/ \E i \in IncidentSlots, sev \in Severities, h \in TitleHashes :
          (i = 1 => h = 0) /\ ProcessNewIncident(i, sev, h)
     \/ CheckIncidentsForEscalation
     \/ \E a \in ActionSlots, id \in KnownIds \ {NoId} :
          ProcessEvent(a, id, "service_down", "none")
     \/ \E a \in ActionSlots, id \in KnownIds \ {NoId},
           rb \in {"service_down", "high_latency"} :
          CreateAction(a, "incident_resolve", id, rb)
     \/ \E a \in ActionSlots : ExecuteActionBegin(a, "ok")
     \/ \E a \in ActionSlots : ExecuteActionReturn(a, "ok")
     \/ Tick

SpecIncident == Init /\ [][NextIncident]_vars

\* The escalation loop on a running agent: incidents are detected, one
\* resolution is attempted, the configuration is reloaded and time passes.
\* The loop is scheduled again and again, and the clock moves on, far
\* enough for every incident detected to reach the age of each rule.
LateClockPoints ==
  <<0, HighSeverityDelay, FailedAutomationDelay,
    HighSeverityDelay + FailedAutomationDelay, 2 * FailedAutomationDelay>>

ClockMoves ==
  /\ \E n \in 1..(Len(LateClockPoints) - 1) :
        now = LateClockPoints[n] /\ now' = LateClockPoints[n + 1]
  /\ op' = Op("other")
  /\ UNCHANGED <<agentVars, taskVars, incidentVars, actions, registryVars,
                 componentVars>>

NextEscalation ==
  /\ UNCHANGED <<registryVars, componentVars>>
  /\ \/ \E cfg \in IncidentConfigs : ~config.present /\ Initialize(cfg)
     \/ \E cfg \in IncidentConfigs : ReloadConfig(cfg)
     \/ ~is_running /\ Start("none")
     \/ \E i \in IncidentSlots, sev \in Severities :
          now <= FailedAutomationDelay /\ ProcessNewIncident(i, sev, 0)
     \/ CheckIncidentsForEscalation
     \/ \E id \in KnownIds \ {NoId}, rb \in {"service_down", "high_latency"} :
          CreateAction(1, "incident_resolve", id, rb)
     \/ ExecuteActionBegin(1, "ok")
     \/ ExecuteActionReturn(1, "ok")
     \/ ClockMoves

SweepScheduled ==
  CheckIncidentsForEscalation /\ UNCHANGED <<registryVars, componentVars>>

SpecEscalation ==
  /\ Init /\ [][NextEscalation]_vars
  /\ WF_vars(SweepScheduled)
  /\ WF_vars(ClockMoves)

\* execute_action on an agent that is initialized, started and stopped
ActionConfig ==
  [present |-> TRUE, enabled |-> TRUE,
   correlation_interval |-> DefaultCorrelationInterval,
   auto_resolution_enabled |-> TRUE, escalation_enabled |-> TRUE,
   max_resolution_attempts |-> MaxConfiguredAttempts]

NextAction ==
  /\ UNCHANGED <<registryVars, componentVars>>
  /\ \/ ~config.present /\ Initialize(ActionConfig)
     \/ Start("none")
     \/ Stop
     \/ ProcessNewIncident(1, "high", 0)
     \/ \E a \in ActionSlots, id \in KnownIds, t \in IncidentTypes :
          ProcessEvent(a, id, t, "none")
     \/ \E a \in ActionSlots, id \in KnownIds, rb \in RunbookKeys :
          CreateAction(a, "incident_resolve", id, rb)
     \/ \E a \in ActionSlots : CreateAction(a, "k8s_scale", NoId, "none")
     \/ \E a \in ActionSlots : ExecuteActionBegin(a, "ok")
     \/ \E a \in ActionSlots : ExecuteActionReturn(a, "ok")

SpecAction == Init /\ [][NextAction]_vars

\* The runtime boundary of one agent: every call with every way it can fail,
\* the background loops and one incident to resolve
RuntimeConfigs ==
  {c \in Configs : /\ c.auto_resolution_enabled /\ c.escalation_enabled
                   /\ c.correlation_interval = DefaultCorrelationInterval
                   /\ c.max_resolution_attempts \in {1, NotANumber}}

NextRuntime ==
  /\ UNCHANGED <<registryVars, componentVars>>
  /\ \/ \E cfg \in RuntimeConfigs : ~config.present /\ Initialize(cfg)
     \/ \E cfg \in RuntimeConfigs : ReloadConfig(cfg)
     \/ \E f \in StartFailures : Start(f)
     \/ Stop
     \/ \E o \in {"done", "failed"} : WatchTaskEnds(o)
     \/ \E k \in LoopKinds : LoopIterationError(k)
     \/ ProcessNewIncident(1, "high", 0)
     \/ \E a \in ActionSlots, id \in KnownIds, f \in EventFailures :
          ProcessEvent(a, id, "high_latency", f)
     \/ \E a \in ActionSlots, id \in KnownIds \ {NoId} :
          CreateAction(a, "incident_resolve", id, "high_latency")
     \/ \E a \in ActionSlots, audit \in AuditBehaviours : ExecuteActionBegin(a, audit)
     \/ \E a \in ActionSlots, audit \in AuditBehaviours : ExecuteActionReturn(a, audit)

SpecRuntime == Init /\ [][NextRuntime]_vars

\* initialize and reload_config with every configuration
NextReload ==
  /\ UNCHANGED <<registryVars, componentVars>>
  /\ \/ \E cfg \in Configs : Initialize(cfg)
     \/ \E cfg \in Configs : ReloadConfig(cfg)

SpecReload == Init /\ [][NextReload]_vars

(***************************************************************************)
(* Claims                                                                  *)
(***************************************************************************)
Created == {i \in IncidentSlots : incidents[i].exists}

\* the execute_action call on a returns from a runbook execution in this step
ReturnsFromRunbook(a) == actions[a].pc = "in_runbook" /\ actions'[a].pc = "idle"

RunbookSucceeded(a) ==
  ExecuteRunbookSuccess(CHOOSE k \in RunbookLookup(actions[a].runbook_id) : TRUE)

\* C1: the status of an action changes only from pending to executing and from
\* executing to completed or failed; completed and failed are final.
C1_StatusStateMachine ==
  [][\A a \in ActionSlots :
       (actions[a].exists /\ actions'[a].status # actions[a].status) =>
         \/ actions[a].status = "pending" /\ actions'[a].status = "executing"
         \/ /\ actions[a].status = "executing"
            /\ actions'[a].status \in {"completed", "failed"}]_vars

\* C2: escalate_incident runs at most once per incident, whether the sweep or
\* the forced escalation after failed resolutions calls it.
C2_EscalatedAtMostOnce ==
  \A i \in IncidentSlots : incidents[i].escalations <= 1

\* C3: the escalated flag of an incident starts false and no step resets it
\* from true to false.
C3_EscalatedNeverReset ==
  [][\A i \in IncidentSlots :
       /\ (~incidents[i].exists /\ incidents'[i].exists) => ~incidents'[i].escalated
       /\ (incidents[i].exists /\ incidents[i].escalated) =>
            (incidents'[i].exists /\ incidents'[i].escalated)]_vars

\* an escalated incident that a later resolution has marked resolved
C3_Witness ==
  \E i \in Created : incidents[i].escalated /\ incidents[i].status = "resolved"

\* C4: no runbook execution is counted for an incident whose resolution_attempts
\* has reached max_resolution_attempts, so the counter never exceeds the ceiling.
C4_AttemptsWithinCeiling ==
  [][\A i \in IncidentSlots :
       incidents'[i].resolution_attempts > incidents[i].resolution_attempts =>
         /\ incidents[i].resolution_attempts < max_resolution_attempts
         /\ incidents'[i].resolution_attempts <= max_resolution_attempts]_vars

\* C5 as claimed: a failed runbook execution adds one to resolution_attempts, and
\* when the counter reaches max_resolution_attempts the incident is escalated.
C5_ForcedEscalationAlways ==
  [][\A a \in ActionSlots :
       (ReturnsFromRunbook(a) /\ ~RunbookSucceeded(a)) =>
         LET i == actions[a].inc
         IN /\ incidents'[i].resolution_attempts =
                 incidents[i].resolution_attempts + 1
            /\ incidents'[i].resolution_attempts = max_resolution_attempts =>
                 incidents'[i].escalated]_vars

\* C5 as amended: a failed runbook execution adds one to resolution_attempts, and
\* when the counter reaches max_resolution_attempts while escalation_enabled is
\* true the incident is escalated, whatever its severity and age.
C5_ForcedEscalationWhenEnabled ==
  [][\A a \in ActionSlots :
       (ReturnsFromRunbook(a) /\ ~RunbookSucceeded(a)) =>
         LET i == actions[a].inc
         IN /\ incidents'[i].resolution_attempts =
                 incidents[i].resolution_attempts + 1
            /\ (incidents'[i].resolution_attempts = max_resolution_attempts
                /\ escalation_enabled) => incidents'[i].escalated]_vars

\* an incident escalated by its failed resolutions alone: no escalation rule
\* holds for it
C5_Witness ==
  \E i \in Created :
    /\ incidents[i].resolution_attempts = max_resolution_attempts
    /\ incidents[i].escalated
    /\ incidents[i].escalations = 1
    /\ ~ShouldEscalate(incidents[i]).escalate

\* C6: executing an action that the detection-event handler returned never ends
\* in the "Runbook not found" result.
C6_HandlerRunbookFound ==
  \A a \in ActionSlots :
    actions[a].from_handler => actions[a].result # "runbook_not_found"

\* C7: when the runbook execution succeeds the incident is resolved and out of
\* the active-incident map on return; when it fails the incident is still in
\* the map with status open.
C7_ResolutionOutcome ==
  [][\A a \in ActionSlots :
       ReturnsFromRunbook(a) =>
         LET i == actions[a].inc
         IN IF RunbookSucceeded(a)
            THEN /\ incidents'[i].status = "resolved"
                 /\ incidents'[i].automated_resolution
                 /\ incidents'[i].resolved_at # NoTime
                 /\ i \notin active_incidents'
            ELSE /\ i \in active_incidents'
                 /\ incidents'[i].status = "open"]_vars

\* C8: when stop() returns on a running agent, no background task of the agent
\* (health loop, config watch, correlation loop, escalation loop) is alive.
C8_NoTaskAliveAfterStop ==
  (op.name = "stop" /\ ~op.noop) => \A k \in TaskKinds : LiveTasks(k) = 0

\* C9: stop() on an agent that is not running raises nothing and changes no
\* state.
C9_StopWhenNotRunningIsNoop ==
  [][(op'.name = "stop" /\ ~is_running) =>
       (UNCHANGED progVars /\ ~op'.raised /\ op'.outcome = "none")]_vars

\* stop() has returned on an agent that was not running while a task, which the
\* teardown would cancel, is alive
C9_Witness ==
  op.name = "stop" /\ op.noop /\ \E k \in TaskKinds : tasks[k] = "alive"

\* C10: start() on a running agent changes no state; start() without a config,
\* or with a failing subscription or agent-specific startup, raises and leaves
\* is_running false.
C10_StartNoopOrRollback ==
  [][op'.name = "start" =>
       /\ is_running => UNCHANGED progVars
       /\ (~is_running /\ (~config.present
                           \/ op'.outcome \in {"subscribe", "specific"})) =>
            (op'.raised /\ ~is_running')]_vars

\* start() has raised because the event subscription failed, after the health
\* task was spawned
C10_Witness ==
  /\ op.name = "start" /\ op.raised /\ op.outcome = "subscribe"
  /\ tasks["health"] = "alive"

\* has an initialize call returned without raising: the last statement of
\* initialize stores the config-watch task in its handle, and nothing clears it
InitializeReturned == tasks["watch"] # "none"

\* C11: the agent is running only if a config is stored and an initialize call
\* has returned without raising; no start() after a failed initialize alone
\* makes it run.
C11_RunningOnlyAfterInitialize ==
  is_running => (config.present /\ InitializeReturned)

\* C12: execute_action never raises to its caller, and when it returns the
\* action and its result have been logged through AuditService.log_action.
C12_ExecuteActionNeverRaises ==
  [][op'.name = "execute_action" =>
       (~op'.raised /\ op'.outcome = "logged")]_vars

\* C13: when no execute_action call is in progress, actions_executed is the
\* number of calls made and actions_successful + actions_failed is
\* actions_executed.
C13_MetricsCountCalls ==
  (\A a \in ActionSlots : actions[a].pc = "idle") =>
    /\ metrics.actions_executed = calls
    /\ metrics.actions_successful + metrics.actions_failed
         = metrics.actions_executed

C15_LoopErrorCounted ==
  [][op'.name = "loop_error" =>
       /\ error_count' = error_count + 1
       /\ (tasks'[op'.outcome] = "alive" \/ leaked'[op'.outcome] > 0)]_vars

\* C16: no step decreases error_count.
C16_ErrorCountMonotone == [][error_count' >= error_count]_vars

\* the health-check loop has caught and counted an error
C16_Witness ==
  error_count > 0 /\ op.name = "loop_error" /\ op.outcome = "health"

Returns(c, name) ==
  /\ callers[c].pc # "done"
  /\ callers'[c].pc = "done"
  /\ callers'[c].op = name

\* C18: no call on the registry raises because another caller changed the
\* agents map while it was suspended (the first half of the claim, which the
\* serial equivalence of the calls implies).
C18_NoCallerRaises ==
  \A c \in CallerSlots : callers[c].raised = "none"

\* C19: when shutdown_all_agents returns, the registry is empty and no agent
\* that the manager created and started is running.
C19_ShutdownStopsEverything ==
  [][\A c \in CallerSlots :
       (Returns(c, "shutdown_all_agents") /\ callers'[c].raised = "none") =>
         /\ Used(agents') = 0
         /\ \A n \in InstanceSlots :
              instances'[n].started => ~instances'[n].is_running]_vars

\* C20: when load_and_start_agents returns, every config whose own creation
\* and start did not fail has its agent created, registered and started; the
\* call raises only if the configs could not be loaded.
C20_LoadIsolatesFailures ==
  [][\A c \in CallerSlots :
       Returns(c, "load_and_start_agents") =>
         \/ callers'[c].raised = "ConfigError" /\ callers[c].pc # "loading"
                                               /\ callers[c].pc # "in_agent"
         \/ /\ callers'[c].raised = "none"
            /\ callers'[c].started \cup callers'[c].failed = AgentIds
            /\ callers'[c].started \cap callers'[c].failed = {}]_vars

\* a load that has returned with one agent failed and a later one started
C20_Witness ==
  \E c \in CallerSlots :
    /\ callers[c].op = "load_and_start_agents" /\ callers[c].pc = "done"
    /\ callers[c].failed = {1} /\ callers[c].started = {2}

\* C21: when unregister_agent returns for an id that was registered and whose
\* agent it stopped, it has not raised, the id is in neither map and the
\* agent is not running.
C21_UnregisterStopsAndRemoves ==
  [][\A c \in CallerSlots :
       (/\ callers[c].op = "unregister_agent"
        /\ callers[c].pc = "in_unregister"
        /\ callers'[c].pc = "done") =>
         /\ callers'[c].raised = "none"
         /\ EntryOf(agents', Head(callers[c].todo)) = {}
         /\ ~instances'[callers[c].inst].is_running]_vars

\* the _execute_step calls of the execution, in the order they were made
StepsRun == SelectSeq(execution.log, LAMBDA x : x[1] = "step")
RollbacksRun == SelectSeq(execution.log, LAMBDA x : x[1] = "rollback")

Stops(step) == step.outcome = "raise" \/ (step.outcome = "fail" /\ step.critical)

\* the steps the loop reaches: those with no raising or failed critical step
\* before them
Reached ==
  {k \in 1..Len(execution.rb.steps) :
     \A m \in 1..(k - 1) : ~Stops(execution.rb.steps[m])}

FailedCritical ==
  {k \in Reached : execution.rb.steps[k].outcome = "fail"
                   /\ execution.rb.steps[k].critical}

NoException ==
  /\ \A k \in Reached : execution.rb.steps[k].outcome # "raise"
  /\ ~CheckRaises(execution.rb)

\* C22: steps run in the runbook's order; after the failure of a critical
\* step every rollback step has run once and no later step has run; after the
\* failure of a step that is not critical the next step runs, and without a
\* critical failure or an exception no rollback step runs.
C22_StepsAndRollbackOrder ==
  execution.pc = "returned" =>
    /\ \A k \in 1..Len(StepsRun) : StepsRun[k][2] = k
    /\ \A f \in FailedCritical :
         /\ Len(StepsRun) = f
         /\ \A r \in 1..Len(execution.rb.rollback_steps) :
              Cardinality({n \in 1..Len(RollbacksRun) : RollbacksRun[n][2] = r}) = 1
    /\ \A k \in Reached :
         (execution.rb.steps[k].outcome = "fail"
          /\ ~execution.rb.steps[k].critical
          /\ k < Len(execution.rb.steps)) => Len(StepsRun) > k
    /\ (FailedCritical = {} /\ NoException) =>
         (RollbacksRun = <<>> /\ ~execution.rollback_performed)

\* C23: a result with rollback_performed after a failed critical step has
\* success = false.
C23_RollbackMeansFailure ==
  (execution.pc = "returned" /\ execution.rollback_performed
   /\ FailedCritical # {}) => ~execution.success

Matching ==
  {k \in 1..Len(execution.rb.success_criteria) :
     execution.rb.success_criteria[k] \cap Keywords # {}}

\* C24: without an exception, success is true exactly when ten times the
\* number of criteria that contain a keyword is at least seven times the
\* number of criteria (so two of three give false and no criteria give true).
C24_SeventyPercent ==
  (execution.pc = "returned" /\ ~execution.error) =>
    (execution.success <=>
       10 * Cardinality(Matching) >= 7 * Len(execution.rb.success_criteria))

\* an execution without exception whose criteria match two times out of three
C24_Witness ==
  /\ execution.pc = "returned" /\ ~execution.error
  /\ Len(execution.rb.success_criteria) = 3
  /\ Cardinality(Matching) = 2
  /\ ~execution.success

\* C25: execute_runbook returns and never raises; after an exception the
\* result has success = false and the error, and the rollback of the except
\* branch was attempted, its own exception included.
C25_ExceptionsContained ==
  execution.pc = "returned" =>
    /\ ~execution.raised
    /\ execution.error =>
         (~execution.success /\ execution.in_handler)

\* an execution whose step raised and whose rollback raised as well
C25_Witness ==
  /\ execution.pc = "returned" /\ execution.error
  /\ execution.in_handler /\ ~execution.rollback_performed
  /\ RollbacksRun # <<>>

\* the whole seconds _incident_duration returns for the incident of the call:
\* up to its resolution if it is resolved, up to the call otherwise
CallAge ==
  IF call.incident.resolved_at # NoTime
  THEN call.incident.resolved_at - call.incident.detected_at
  ELSE call.at - call.incident.detected_at

\* C26: should_escalate returns true with the name of the first rule, in the
\* order critical / 0 s, high / 300 s, open and not auto-resolved / 900 s,
\* age over 1800 s / 0 s, whose predicate holds and whose delay is at most the
\* incident's age (the seconds _incident_duration returns), and false with an
\* empty reason when there is none.
C26_FirstQualifyingRule ==
  call.fn = "should_escalate" =>
    call.result =
      IF call.incident.severity = "critical" /\ CallAge >= 0
      THEN [escalate |-> TRUE,
            reason |-> "Critical Incident Immediate Escalation"]
      ELSE IF call.incident.severity = "high" /\ CallAge >= HighSeverityDelay
      THEN [escalate |-> TRUE, reason |-> "High Severity Escalation"]
      ELSE IF /\ ~call.incident.automated_resolution
              /\ call.incident.status = "open"
              /\ CallAge >= FailedAutomationDelay
      THEN [escalate |-> TRUE, reason |-> "Failed Automation Escalation"]
      ELSE IF CallAge > LongRunningSeconds
      THEN [escalate |-> TRUE, reason |-> "Long Running Incident"]
      ELSE [escalate |-> FALSE, reason |-> ""]

\* a critical incident of age 0 is escalated by the critical rule
C26_Witness ==
  /\ call.fn = "should_escalate"
  /\ call.incident.severity = "critical" /\ CallAge = 0
  /\ call.result = [escalate |-> TRUE,
                    reason |-> "Critical Incident Immediate Escalation"]

RECURSIVE Flatten(_)
Flatten(groups) ==
  IF groups = <<>> THEN <<>> ELSE Head(groups) \o Flatten(Tail(groups))

\* C27: the groups of _group_alerts_by_time are, one after the other, the
\* alerts sorted by timestamp; an alert is in the group of the alert before it
\* exactly when it is at most 15 minutes after the first alert of that group.
C27_GroupsFromWindowStart ==
  call.fn = "_group_alerts_by_time" =>
    LET sorted == Flatten(call.result)
        GroupOf(k) == CHOOSE g \in 1..Len(call.result) :
                        \E m \in 1..Len(call.result[g]) :
                          call.result[g][m] = sorted[k]
    IN /\ \A g \in 1..Len(call.result) : call.result[g] # <<>>
       /\ Len(sorted) = Len(call.alerts)
       /\ \A i \in 1..Len(call.alerts) :
            \E k \in 1..Len(sorted) : sorted[k] = call.alerts[i]
       /\ \A k \in 1..(Len(sorted) - 1) :
            \/ sorted[k].timestamp < sorted[k + 1].timestamp
            \/ /\ sorted[k].timestamp = sorted[k + 1].timestamp
               /\ sorted[k].id < sorted[k + 1].id
       /\ \A k \in 1..(Len(sorted) - 1) :
            (GroupOf(k + 1) = GroupOf(k)) <=>
              (sorted[k + 1].timestamp - call.result[GroupOf(k)][1].timestamp
                 <= CorrelationWindow)

\* alerts at t, t + 5 and t + 20 minutes give the groups {t, t + 5}, {t + 20}
C27_Witness ==
  /\ call.fn = "_group_alerts_by_time"
  /\ Len(call.alerts) = 3
  /\ call.alerts[1].timestamp = 0
  /\ call.alerts[2].timestamp = 5
  /\ call.alerts[3].timestamp = 20
  /\ call.result = << <<call.alerts[1], call.alerts[2]>>, <<call.alerts[3]>> >>

\* the time group of the alert with the id, among the groups of the call
TimeGroupOf(id) ==
  LET groups == GroupAlertsByTime(call.alerts)
  IN CHOOSE g \in 1..Len(groups) :
       \E m \in 1..Len(groups[g]) : groups[g][m].id = id

\* C28: every alert passed to correlate_alerts is in exactly one of the
\* incidents returned, once, and the alerts of an incident are all of one
\* time group, whatever labels the clustering returns.
C28_IncidentsPartitionAlerts ==
  call.fn = "correlate_alerts" =>
    /\ \A i \in 1..Len(call.alerts) :
         Cardinality({p \in (1..Len(call.result)) \X (1..MaxAlerts) :
                        /\ p[2] <= Len(call.result[p[1]].alerts)
                        /\ call.result[p[1]].alerts[p[2]] = call.alerts[i]}) = 1
    /\ \A n \in 1..Len(call.result) :
         \A k, m \in 1..Len(call.result[n].alerts) :
           TimeGroupOf(call.result[n].alerts[k].id)
             = TimeGroupOf(call.result[n].alerts[m].id)

\* three alerts in two time groups, two outliers among them
C28_Witness ==
  /\ call.fn = "correlate_alerts" /\ call.fitted
  /\ Len(call.alerts) = 3
  /\ Len(GroupAlertsByTime(call.alerts)) = 2
  /\ Cardinality({i \in 1..3 : call.labels[i] = Noise}) = 2
  /\ Len(call.result) = 3

\* C29: three alerts of one resource, within a minute of each other, are
\* correlated (with the labels DBSCAN gives for their features) into one
\* incident of three alerts whose severity is the highest of the three.
C29_ThreeAlertsOneIncident ==
  (/\ call.fn = "correlate_alerts" /\ call.fitted
   /\ Len(call.alerts) = 3
   /\ \A i, k \in 1..3 :
        /\ call.alerts[i].resource = call.alerts[k].resource
        /\ call.alerts[i].timestamp - call.alerts[k].timestamp <= 1
   /\ FitPredictGives(call.alerts, call.labels)) =>
    /\ Len(call.result) = 1
    /\ call.result[1].alert_count = 3
    /\ \A i \in 1..3 :
         SeverityOrder(call.alerts[i].severity)
           <= SeverityOrder(call.result[1].severity)

\* the decisions recorded for a deployment, oldest first
DecisionsFor(key) ==
  SelectSeq(scaling_history, LAMBDA r : r.deployment = key)

\* C31: once a scaling decision for a deployment has been recorded,
\* _should_scale returns false for every recommendation for that deployment
\* made less than 300 seconds after the first recorded decision, whatever
\* the confidence of the recommendation.
C31_CooldownAfterFirstDecision ==
  (/\ call.fn = "_should_scale"
   /\ DecisionsFor(call.recommendation.key) # <<>>
   /\ call.at - DecisionsFor(call.recommendation.key)[1].timestamp < 300)
    => call.result = FALSE

\* a confident recommendation with a replica change is suppressed after two
\* decisions for its deployment, inside 300 seconds of the first
C31_Witness ==
  /\ call.fn = "_should_scale"
  /\ call.recommendation.confidence = 90
  /\ call.recommendation.recommended_replicas = 5
  /\ Len(DecisionsFor(call.recommendation.key)) = 2
  /\ call.at - DecisionsFor(call.recommendation.key)[1].timestamp < 300
  /\ call.at > DecisionsFor(call.recommendation.key)[1].timestamp
  /\ call.result = FALSE

\* C32: every retained history stays bounded after any sequence of
\* operations: at most 100 entries in each agent's health history, in the
\* execution history of the runbook executor and in the drift history, and
\* at most 30 entries in the cost history.
C32_HistoriesBounded ==
  /\ \A a \in MonitoredAgents : Len(health_history[a]) <= 100
  /\ Len(execution_history) <= 100
  /\ Len(drift_history) <= 100
  /\ Len(cost_history) <= 30

\* C34: perform_health_check runs every registered check, a check that
\* raises counting as one failed result, and reports offline if no check
\* ran, healthy if none failed, degraded if at least one and at most half
\* of the checks run failed, and unhealthy otherwise.
C34_StatusFromFailedChecks ==
  call.fn = "perform_health_check" =>
    LET ran == Len(call.check_results)
        failed == Cardinality({k \in 1..Len(call.checks) :
                                 call.checks[k].check_func # "passed"})
    IN /\ ran = Len(call.checks)
       /\ call.result.status =
            IF ran = 0 THEN "offline"
            ELSE IF failed = 0 THEN "healthy"
            ELSE IF 2 * failed <= ran THEN "degraded"
            ELSE "unhealthy"

\* two checks of which one raises and the other passes: degraded
C34_Witness ==
  /\ call.fn = "perform_health_check"
  /\ Len(call.checks) = 2
  /\ \E k \in 1..2 : call.checks[k].check_func = "raises"
  /\ \E k \in 1..2 : call.checks[k].check_func = "passed"
  /\ call.result.status = "degraded"

\* C33: get_health_status reports offline whenever the agent is not
\* running; while running it reports unhealthy if error_count > 10, degraded
\* if 5 < error_count <= 10, and healthy if error_count <= 5.
C33_StatusFromErrorCount ==
  (call.fn = "get_health_status" /\ ~call.raised) =>
    /\ ~call.is_running => call.result.status = "offline"
    /\ (call.is_running /\ call.error_count > 10) =>
         call.result.status = "unhealthy"
    /\ (call.is_running /\ 5 < call.error_count /\ call.error_count <= 10) =>
         call.result.status = "degraded"
    /\ (call.is_running /\ call.error_count <= 5) =>
         call.result.status = "healthy"

\* a running agent with exactly ten errors is reported degraded
C33_Witness ==
  /\ call.fn = "get_health_status"
  /\ ~call.raised
  /\ call.is_running
  /\ call.error_count = 10
  /\ call.result.status = "degraded"

\* C35: no buffered alert is lost or processed twice: every alert appended
\* to the alert buffer, including alerts appended while a flush is
\* suspended, is passed to correlate_alerts in exactly one flush. An alert
\* that has left the buffer was passed once, and no alert is passed twice.
C35_EveryAlertCorrelatedOnce ==
  \A a \in flush.appended :
    /\ flush.correlated[a] <= 1
    /\ (\A k \in 1..Len(alert_buffer) : alert_buffer[k].id # a) =>
         flush.correlated[a] = 1

\* C40: the incidents created by one correlation pass have pairwise distinct
\* identifiers, so after _process_alert_buffer the active-incident map holds
\* one entry for every incident the correlator returned.
C40_DistinctIncidentIds ==
  (flush.pc = "idle" /\ flush.incidents # <<>>) =>
    /\ \A k, n \in 1..Len(flush.incidents) :
         k # n => flush.incidents[k].id # flush.incidents[n].id
    /\ Len(flush.stored) = Len(flush.incidents)

\* C36: when two INCIDENT_RESOLVE actions for the same incident are executed
\* concurrently and both runbook executions report success, each call
\* returns a successful ActionResult: a call that comes back from a
\* successful runbook execution completes its action and is counted as
\* successful, whether or not another call has removed the incident.
C36_ConcurrentResolutionsSucceed ==
  [][\A a \in ActionSlots :
       (ReturnsFromRunbook(a) /\ RunbookSucceeded(a)) =>
         /\ actions'[a].status = "completed"
         /\ metrics'.actions_successful = metrics.actions_successful + 1]_vars

\* the escalation sweep calls escalate_incident on incident i in this step:
\* the flag is set by a step that is not the return of an action
SweepEscalates(i) ==
  /\ ~incidents[i].escalated
  /\ incidents'[i].escalated
  /\ incidents[i].exists
  /\ actions' = actions

\* C37: the escalation sweep never escalates an incident that, at the moment
\* escalate_incident is called, has status resolved or is no longer in the
\* active-incident map, however the sweep interleaves with resolutions.
C37_SweepEscalatesActiveOpenOnly ==
  [][\A i \in IncidentSlots :
       SweepEscalates(i) =>
         /\ i \in active_incidents
         /\ incidents[i].status # "resolved"]_vars

\* the sweep has escalated an incident that a resolution in progress is
\* working on and that no failed attempt has escalated
C37_Witness ==
  \E i \in IncidentSlots, a \in ActionSlots :
    /\ incidents[i].escalated
    /\ incidents[i].resolution_attempts = 0
    /\ i \in active_incidents
    /\ actions[a].pc = "in_runbook"
    /\ actions[a].inc = i

\* C38: at any time the agent has at most one live task of each
\* background-loop kind (health check, correlation flush, escalation sweep),
\* for every sequence of start, failed start, stop, failed stop and restart.
C38_OneTaskPerLoopKind ==
  \A kind \in LoopKinds : LiveTasks(kind) <= 1

\* C39: under fair scheduling of the escalation sweep, while the agent stays
\* running with escalation enabled, every incident that stays in the active
\* set with status open is eventually escalated.
C39_OpenIncidentEventuallyEscalated ==
  \A i \in IncidentSlots :
    <>[](/\ is_running
         /\ escalation_enabled
         /\ i \in active_incidents
         /\ incidents[i].status = "open")
      => <>(incidents[i].escalated)

====
